---- MODULE Spec2Model ----
(***************************************************************************)
(* A model of the Life Admin Concierge demo: the keyword router, the       *)
(* Eisenhower matrix, the in-memory session store, the mock Gmail and      *)
(* Calendar tools and LifeAdminConcierge.process_query.                    *)
(*                                                                         *)
(* Python str values are TLA+ strings; Len, \o and SubSeq act on them as    *)
(* len(), + and slicing do.  Every operation is one action that records    *)
(* its name, its inputs and its result in the variable call.               *)
(***************************************************************************)
EXTENDS Integers, Sequences, FiniteSets, TLC

VARIABLES
    now,        \* the wall clock (datetime.now()), in seconds since it was started
    sessions,   \* SessionManager.sessions: session_id -> InMemorySession
    quadrants,  \* EisenhowerMatrix.quadrants: quadrant -> list of tasks
    client,     \* LifeAdminConcierge.client is not None
    categorized,\* the number of categorize_task calls made so far
    call        \* the last operation: its name, inputs and result

vars == <<now, sessions, quadrants, client, categorized, call>>

(***************************************************************************)
(* Bounds of the model.                                                    *)
(***************************************************************************)
\* a query is at most this many phrases of Phrases, joined by blanks
MaxPhrases == 2
\* categorize_task is called at most this many times
MaxTasks == 3
\* the clock runs for at most this many minutes
MaxMinutes == 2
\* the tools are called during at most this many seconds
MaxSeconds == 1
\* SessionManager(default_timeout=...) in minutes (30 when omitted); the model
\* constructs the manager with a timeout the clock can exceed
TimeoutMinutes == 1
\* a session's history holds at most this many messages
MaxHistory == 1
\* the store holds the messages of at most this many process_query calls
MaxQueries == 1

----------------------------------------------------------------------------
(***************************************************************************)
(* Python str operations.                                                  *)
(***************************************************************************)
UpperCase == "ABCDEFGHIJKLMNOPQRSTUVWXYZ"
LowerCase == "abcdefghijklmnopqrstuvwxyz"

\* s[i] (1-based)
CharAt(s, i) == SubSeq(s, i, i)

\* the lower-case letter of each upper-case letter
LowerOf ==
    [c \in {CharAt(UpperCase, i) : i \in 1..Len(UpperCase)} |->
        CharAt(LowerCase, CHOOSE i \in 1..Len(UpperCase) : CharAt(UpperCase, i) = c)]

\* str.lower() of one character
LowerChar(c) == IF c \in DOMAIN LowerOf THEN LowerOf[c] ELSE c

\* str.lower()
RECURSIVE Lower(_)
Lower(s) ==
    IF Len(s) = 0 THEN ""
    ELSE IF Len(s) = 1 THEN LowerChar(s)
    ELSE Lower(SubSeq(s, 1, Len(s) \div 2))
             \o Lower(SubSeq(s, Len(s) \div 2 + 1, Len(s)))

\* the upper-case letter of each lower-case letter
UpperOf ==
    [c \in {CharAt(LowerCase, i) : i \in 1..Len(LowerCase)} |->
        CharAt(UpperCase, CHOOSE i \in 1..Len(LowerCase) : CharAt(LowerCase, i) = c)]

\* str.upper() of one character
UpperChar(c) == IF c \in DOMAIN UpperOf THEN UpperOf[c] ELSE c

\* str.upper()
RECURSIVE Upper(_)
Upper(s) ==
    IF Len(s) = 0 THEN ""
    ELSE IF Len(s) = 1 THEN UpperChar(s)
    ELSE Upper(SubSeq(s, 1, Len(s) \div 2))
             \o Upper(SubSeq(s, Len(s) \div 2 + 1, Len(s)))

\* kw in s
Contains(s, kw) ==
    \E i \in 1..(Len(s) - Len(kw) + 1) : SubSeq(s, i, i + Len(kw) - 1) = kw

\* any(kw in s for kw in kws), kws a sequence of strings
ContainsAny(s, kws) == \E k \in 1..Len(kws) : Contains(s, kws[k])

\* Python values of mixed type: None, and a str as a tagged value
None == [type |-> "NoneType"]
Str(s) == [type |-> "str", value |-> s]

----------------------------------------------------------------------------
(***************************************************************************)
(* session/memory.py: InMemorySession and SessionManager.                  *)
(***************************************************************************)
\* the identifiers sessions go by: uuid4 strings and caller-chosen names
SessionIds == {"s1", "s2"}

\* a session_id argument that is None or "": both are falsy
NoId == ""

\* InMemorySession.__init__ with the identifier resolved, at time t
NewSession(sid, t, timeout) ==
    [session_id |-> sid,
     created_at |-> t,
     last_activity |-> t,
     timeout_minutes |-> timeout,
     history |-> <<>>,
     state |-> <<>>,
     metadata |-> [message_count |-> 0, tools_used |-> <<>>,
                   agents_invoked |-> <<>>]]

\* timedelta(minutes=m), in seconds
Minutes(m) == m * 60

\* the mutant of is_expired: expired already at the timeout itself
is_expired_at_timeout(s, t) == t >= s.last_activity + Minutes(s.timeout_minutes)

\* InMemorySession.is_expired, datetime.now() reading t
is_expired(s, t) == t > s.last_activity + Minutes(s.timeout_minutes)

\* InMemorySession.add_message at time t: the session afterwards
add_message(s, role, content, metadata, t) ==
    LET message == [id |-> Len(s.history) + 1,
                    role |-> role,
                    content |-> content,
                    timestamp |-> t,
                    metadata |-> metadata]
    IN  [s EXCEPT !.history = Append(@, message),
                  !.last_activity = t,
                  !.metadata.message_count = @ + 1]

\* the mutant of add_user_message: the query is recorded as an answer
add_user_message_as_assistant(s, content, t) ==
    add_message(s, "assistant", content, <<>>, t)

\* InMemorySession.add_user_message
add_user_message(s, content, t) == add_message(s, "user", content, <<>>, t)

\* InMemorySession.add_assistant_message, tool_calls omitted
add_assistant_message(s, content, t) ==
    add_message(s, "assistant", content, [tool_calls |-> None], t)

\* SessionManager.delete_session: the store afterwards
delete_session(store, sid) ==
    IF sid \in DOMAIN store
    THEN [k \in DOMAIN store \ {sid} |-> store[k]]
    ELSE store

\* SessionManager.create_session at time t: the store afterwards and the
\* session; a falsy session_id gets the uuid4 string fresh
create_session(store, session_id, fresh, t) ==
    LET sid == IF session_id # NoId THEN session_id ELSE fresh
        session == NewSession(sid, t, TimeoutMinutes)
    IN  [sessions |-> [k \in DOMAIN store \cup {sid} |->
                          IF k = sid THEN session ELSE store[k]],
         session |-> session]

\* the mutant of get_session: an expired session is reported absent and kept
get_session_keeping(store, session_id, t1, t2) ==
    IF session_id \in DOMAIN store /\ ~is_expired(store[session_id], t1)
    THEN [sessions |-> store, session |-> store[session_id]]
    ELSE [sessions |-> store, session |-> None]

\* SessionManager.get_session: the store afterwards and the session or None;
\* is_expired reads the clock at t1 and, in the elif, again at t2
get_session(store, session_id, t1, t2) ==
    IF session_id \in DOMAIN store /\ ~is_expired(store[session_id], t1)
    THEN [sessions |-> store, session |-> store[session_id]]
    ELSE IF session_id \in DOMAIN store /\ is_expired(store[session_id], t2)
    THEN [sessions |-> delete_session(store, session_id), session |-> None]
    ELSE [sessions |-> store, session |-> None]

\* the mutant of get_or_create_session: a session is made anew every time
create_session_anew(store, session_id, fresh, t1, t2) ==
    create_session(store, session_id, fresh, t2)

\* SessionManager.get_or_create_session
get_or_create_session(store, session_id, fresh, t1, t2) ==
    LET got == IF session_id # NoId
               THEN get_session(store, session_id, t1, t2)
               ELSE [sessions |-> store, session |-> None]
    IN  IF session_id # NoId /\ got.session # None
        THEN got
        ELSE create_session(got.sessions, session_id, fresh, t2)

----------------------------------------------------------------------------
(***************************************************************************)
(* agents/router.py: RouterAgent.                                          *)
(***************************************************************************)
\* self.routes, in insertion order (a dict iterates in insertion order)
Routes == <<
    [agent |-> "admin_agent",
     keywords |-> <<"calendar", "event", "schedule", "remind", "reminder",
                    "appointment", "meeting", "book", "email", "draft",
                    "mail", "send", "renew", "renewal", "deadline">>,
     description |-> "Handles calendar events, email drafts, and renewal reminders"],
    [agent |-> "productivity_agent",
     keywords |-> <<"task", "priority", "prioritize", "eisenhower", "matrix",
                    "energy", "todo", "to-do", "schedule", "time block",
                    "productive", "focus", "plan", "daily", "routine">>,
     description |-> "Handles task prioritization and daily planning"],
    [agent |-> "profile_agent",
     keywords |-> <<"license", "passport", "insurance", "policy", "number",
                    "address", "phone", "email", "contact", "ssn", "id",
                    "document", "info", "information", "profile", "what's my",
                    "what is my", "do i have">>,
     description |-> "Retrieves personal information from profile"]
>>

\* sum(len(kw) for kw in keywords[k..] if kw in query_lower)
RECURSIVE WeightedFrom(_, _, _)
WeightedFrom(keywords, query_lower, k) ==
    IF k > Len(keywords) THEN 0
    ELSE (IF Contains(query_lower, keywords[k]) THEN Len(keywords[k]) ELSE 0)
         + WeightedFrom(keywords, query_lower, k + 1)

\* sum(1 for kw in keywords[k..] if kw in query_lower): computed, never used
RECURSIVE MatchesFrom(_, _, _)
MatchesFrom(keywords, query_lower, k) ==
    IF k > Len(keywords) THEN 0
    ELSE (IF Contains(query_lower, keywords[k]) THEN 1 ELSE 0)
         + MatchesFrom(keywords, query_lower, k + 1)

\* the mutant of WeightedScore: the match count in place of the weight
MatchCountScore(keywords, query_lower) == MatchesFrom(keywords, query_lower, 1)

\* weighted_score of one route
WeightedScore(keywords, query_lower) == WeightedFrom(keywords, query_lower, 1)

\* scores[agent] for the r-th route
Scores(query_lower) ==
    [r \in 1..Len(Routes) |-> WeightedScore(Routes[r].keywords, query_lower)]

\* the mutant of MaxKey: on a tie the last route wins
RECURSIVE MaxKeyLast(_, _, _)
MaxKeyLast(scores, r, best) ==
    IF r > Len(scores) THEN best
    ELSE MaxKeyLast(scores, r + 1, IF scores[r] >= scores[best] THEN r ELSE best)

\* max(scores, key=scores.get): the first key, in iteration order, of the
\* largest value; called with r = 2 and best = 1
RECURSIVE MaxKey(_, _, _)
MaxKey(scores, r, best) ==
    IF r > Len(scores) THEN best
    ELSE MaxKey(scores, r + 1, IF scores[r] > scores[best] THEN r ELSE best)

\* a float in 0..1 as the fraction num/den
Fraction(num, den) == [num |-> num, den |-> den]

Max(a, b) == IF a >= b THEN a ELSE b

\* RouterAgent.classify_intent: <<agent_name, confidence>>
classify_intent(q) ==
    LET query_lower == Lower(q)
        scores == Scores(query_lower)
        best == MaxKey(scores, 2, 1)
        max_score == scores[best]
        length == Max(Len(query_lower), 1)
        \* min(max_score / max(len(query_lower), 1) * 10, 1.0)
        confidence == IF max_score * 10 >= length
                      THEN Fraction(1, 1)
                      ELSE Fraction(max_score * 10, length)
    IN  IF max_score > 0
        THEN <<Routes[best].agent, confidence>>
        ELSE <<"general_agent", Fraction(1, 2)>>

\* self.routes.get(agent, {}).get("description", "General assistance")
RouteDescription(agent) ==
    IF \E r \in 1..Len(Routes) : Routes[r].agent = agent
    THEN Routes[CHOOSE r \in 1..Len(Routes) : Routes[r].agent = agent].description
    ELSE "General assistance"

\* RouterAgent.route: the routing_result dictionary
route(q) ==
    LET ci == classify_intent(q)
    IN  [query |-> q, routed_to |-> ci[1], confidence |-> ci[2],
         description |-> RouteDescription(ci[1])]

\* the queries the model routes: one to MaxPhrases phrases joined by blanks
Phrases == {
    "Create a calendar event", "Draft an email", "What's my license number?",
    "Prioritize my tasks", "I'm tired, what should I do?",
    "Check my insurance policy", "I'm tired today, what should I work on?",
    "schedule", "task", "info", "Hello there", "BOOK", "calendar",
    "todo task" }

RECURSIVE QueriesOf(_)
QueriesOf(n) ==
    IF n = 0 THEN {""}
    ELSE IF n = 1 THEN Phrases
    ELSE QueriesOf(n - 1)
         \cup {q \o " " \o p : q \in QueriesOf(n - 1), p \in Phrases}

Queries == {""} \cup QueriesOf(MaxPhrases)

----------------------------------------------------------------------------
(***************************************************************************)
(* The state after construction and the operations.                        *)
(***************************************************************************)
\* EisenhowerMatrix.quadrants' keys, in insertion order
QuadrantNames == <<"Q1_do_first", "Q2_schedule", "Q3_delegate", "Q4_eliminate">>

\* No session, four empty quadrants; the Gemini client exists or not,
\* as the API key and the google-genai import decide at construction.
Init ==
    /\ now = 0
    /\ sessions = <<>>
    /\ quadrants = [q \in {QuadrantNames[i] : i \in 1..Len(QuadrantNames)} |-> <<>>]
    /\ client \in BOOLEAN
    /\ categorized = 0
    /\ call = [op |-> "init"]

\* The router's inputs: a query waits to be routed.
RouterInit ==
    /\ now = 0
    /\ sessions = <<>>
    /\ quadrants = [q \in {QuadrantNames[i] : i \in 1..Len(QuadrantNames)} |-> <<>>]
    /\ client = FALSE
    /\ categorized = 0
    /\ call \in {[op |-> "query", query |-> q] : q \in Queries}

\* router.route(call.query)
Route ==
    /\ call.op = "query"
    /\ call' = [op |-> "route", query |-> call.query, result |-> route(call.query)]
    /\ UNCHANGED <<now, sessions, quadrants, client, categorized>>

RouterNext == Route

RouterSpec == RouterInit /\ [][RouterNext]_vars

----------------------------------------------------------------------------
(***************************************************************************)
(* data/eisenhower.py: EisenhowerMatrix.                                   *)
(***************************************************************************)
\* the task descriptions the model categorizes
Tasks == {"pay rent", "sort mail"}

\* the mutant of Quadrant: the Q2 and Q3 branches swapped
QuadrantSwapped(urgent, important) ==
    IF urgent /\ important THEN "Q1_do_first"
    ELSE IF important /\ ~urgent THEN "Q3_delegate"
    ELSE IF urgent /\ ~important THEN "Q2_schedule"
    ELSE "Q4_eliminate"

\* the if/elif chain of categorize_task
Quadrant(urgent, important) ==
    IF urgent /\ important THEN "Q1_do_first"
    ELSE IF important /\ ~urgent THEN "Q2_schedule"
    ELSE IF urgent /\ ~important THEN "Q3_delegate"
    ELSE "Q4_eliminate"

\* sum(len(q) for q in self.quadrants.values())
RECURSIVE TotalTasks(_, _)
TotalTasks(quads, i) ==
    IF i > Len(QuadrantNames) THEN 0
    ELSE Len(quads[QuadrantNames[i]]) + TotalTasks(quads, i + 1)

\* EisenhowerMatrix.get_summary()
get_summary(quads) ==
    [total_tasks |-> TotalTasks(quads, 1),
     quadrants |-> quads,
     focus_areas |-> [critical |-> Len(quads["Q1_do_first"]),
                      important |-> Len(quads["Q2_schedule"]),
                      delegatable |-> Len(quads["Q3_delegate"]),
                      eliminatable |-> Len(quads["Q4_eliminate"])]]

\* get_energy_adjusted_tasks without energy_level.upper()
get_energy_adjusted_tasks_as_given(quads, energy_level) ==
    IF energy_level = "LOW"
    THEN quads["Q3_delegate"] \o quads["Q4_eliminate"]
    ELSE IF energy_level = "MEDIUM"
    THEN quads["Q2_schedule"] \o quads["Q3_delegate"]
    ELSE quads["Q1_do_first"] \o quads["Q2_schedule"]

\* EisenhowerMatrix.get_energy_adjusted_tasks(energy_level): the list returned
get_energy_adjusted_tasks(quads, energy_level) ==
    LET upper == Upper(energy_level)
    IN  IF upper = "LOW"
        THEN quads["Q3_delegate"] \o quads["Q4_eliminate"]
        ELSE IF upper = "MEDIUM"
        THEN quads["Q2_schedule"] \o quads["Q3_delegate"]
        ELSE quads["Q1_do_first"] \o quads["Q2_schedule"]

\* the energy levels the model asks for
EnergyLevels == {"LOW", "low", "Low", "MEDIUM", "medium", "HIGH", "high",
                 "", "urgent", " low"}

\* matrix.categorize_task(task, urgent, important)
CategorizeTask(task, urgent, important) ==
    /\ categorized < MaxTasks
    /\ LET quadrant == Quadrant(urgent, important)
       IN  /\ quadrants' = [quadrants EXCEPT ![quadrant] = Append(@, task)]
           /\ call' = [op |-> "categorize_task", task |-> task, urgent |-> urgent,
                       important |-> important, result |-> quadrant]
    /\ categorized' = categorized + 1
    /\ UNCHANGED <<now, sessions, client>>

\* matrix.get_summary()
GetSummary ==
    /\ call' = [op |-> "get_summary", result |-> get_summary(quadrants)]
    /\ UNCHANGED <<now, sessions, quadrants, client, categorized>>

\* matrix.get_energy_adjusted_tasks(energy_level)
GetEnergyAdjustedTasks(energy_level) ==
    /\ call' = [op |-> "get_energy_adjusted_tasks", energy_level |-> energy_level,
                result |-> get_energy_adjusted_tasks(quadrants, energy_level)]
    /\ UNCHANGED <<now, sessions, quadrants, client, categorized>>

MatrixNext ==
    \/ \E task \in Tasks, urgent \in BOOLEAN, important \in BOOLEAN :
           CategorizeTask(task, urgent, important)
    \/ GetSummary
    \/ \E energy_level \in EnergyLevels : GetEnergyAdjustedTasks(energy_level)

MatrixSpec == Init /\ [][MatrixNext]_vars

----------------------------------------------------------------------------
(***************************************************************************)
(* The session operations as actions (SessionSpec).                        *)
(***************************************************************************)
\* the message texts the model stores
Contents == {Str("hello")}

\* a minute passes
TickMinute ==
    /\ now + Minutes(1) <= Minutes(MaxMinutes)
    /\ now' = now + Minutes(1)
    /\ call' = [op |-> "tick"]
    /\ UNCHANGED <<sessions, quadrants, client, categorized>>

\* get_session reads the clock a second time only for a stored session that
\* its first reading found expired
ReadsTwice(session_id) ==
    /\ session_id \in DOMAIN sessions
    /\ is_expired(sessions[session_id], now)

\* the time that may pass between the two readings: none, or a minute
Delays(session_id) ==
    IF ReadsTwice(session_id)
    THEN {d \in {0, Minutes(1)} : now + d <= Minutes(MaxMinutes)}
    ELSE {0}

\* the uuid4 strings a new session may get: any identifier not stored
FreshIds(session_id) ==
    IF session_id # NoId THEN {session_id} ELSE SessionIds \ DOMAIN sessions

\* self.sessions.get(session_id) before an operation
Stored(session_id) ==
    IF session_id \in DOMAIN sessions THEN sessions[session_id] ELSE None

\* session.is_expired() of a stored session
IsExpired(sid) ==
    /\ sid \in DOMAIN sessions
    /\ call' = [op |-> "is_expired", session_id |-> sid, at |-> now,
                result |-> is_expired(sessions[sid], now)]
    /\ UNCHANGED <<now, sessions, quadrants, client, categorized>>

\* session.add_message(role, content) of a stored session
AddMessage(sid, role, content) ==
    /\ sid \in DOMAIN sessions
    /\ Len(sessions[sid].history) < MaxHistory
    /\ sessions' = [sessions EXCEPT ![sid] = add_message(@, role, content, <<>>, now)]
    /\ call' = [op |-> "add_message", session_id |-> sid,
                result |-> sessions'[sid].history[Len(sessions'[sid].history)]]
    /\ UNCHANGED <<now, quadrants, client, categorized>>

\* manager.create_session(session_id)
CreateSession(session_id) ==
    \E fresh \in FreshIds(session_id) :
        LET made == create_session(sessions, session_id, fresh, now)
        IN  /\ sessions' = made.sessions
            /\ call' = [op |-> "create_session", session_id |-> session_id,
                        result |-> made.session]
            /\ UNCHANGED <<now, quadrants, client, categorized>>

\* manager.get_session(session_id)
GetSession(session_id) ==
    \E d \in Delays(session_id) :
        LET got == get_session(sessions, session_id, now, now + d)
        IN  /\ sessions' = got.sessions
            /\ now' = now + d
            /\ call' = [op |-> "get_session", session_id |-> session_id,
                        at |-> now, before |-> Stored(session_id),
                        result |-> got.session]
            /\ UNCHANGED <<quadrants, client, categorized>>

\* manager.get_or_create_session(session_id)
GetOrCreateSession(session_id) ==
    \E d \in Delays(session_id), fresh \in FreshIds(session_id) :
        LET got == get_or_create_session(sessions, session_id, fresh, now, now + d)
        IN  /\ sessions' = got.sessions
            /\ now' = now + d
            /\ call' = [op |-> "get_or_create_session", session_id |-> session_id,
                        at |-> now, before |-> Stored(session_id),
                        result |-> got.session]
            /\ UNCHANGED <<quadrants, client, categorized>>

\* manager.delete_session(session_id)
DeleteSession(session_id) ==
    /\ sessions' = delete_session(sessions, session_id)
    /\ call' = [op |-> "delete_session", session_id |-> session_id]
    /\ UNCHANGED <<now, quadrants, client, categorized>>

SessionNext ==
    \/ TickMinute
    \/ \E sid \in SessionIds : IsExpired(sid)
    \/ \E sid \in SessionIds, role \in {"user", "assistant"}, content \in Contents :
           AddMessage(sid, role, content)
    \/ \E sid \in SessionIds \cup {NoId} : CreateSession(sid)
    \/ \E sid \in SessionIds : GetSession(sid)
    \/ \E sid \in SessionIds \cup {NoId} : GetOrCreateSession(sid)
    \/ \E sid \in SessionIds : DeleteSession(sid)

\* the session store of a concierge built without a Gemini client
SessionInit == Init /\ ~client

SessionSpec == SessionInit /\ [][SessionNext]_vars

----------------------------------------------------------------------------
(***************************************************************************)
(* datetime: the dates and times the tools read, parse, add and format.    *)
(* A datetime is a record of its fields; tz is "" for a naive datetime and *)
(* "+00:00" for one in UTC.  A computation either returns a value or       *)
(* raises an exception of some class with a message.                       *)
(***************************************************************************)
Return(v) == [raised |-> "", value |-> v]
Raise(class, msg) == [raised |-> class, msg |-> msg]

Digits == "0123456789"

IsDigit(c) == \E i \in 1..Len(Digits) : CharAt(Digits, i) = c

DigitValue(c) == (CHOOSE i \in 1..Len(Digits) : CharAt(Digits, i) = c) - 1

RECURSIVE AllDigits(_)
AllDigits(s) ==
    s = "" \/ (IsDigit(CharAt(s, 1)) /\ AllDigits(SubSeq(s, 2, Len(s))))

\* int(s) of a string of digits
RECURSIVE IntOf(_)
IntOf(s) ==
    IF s = "" THEN 0
    ELSE IntOf(SubSeq(s, 1, Len(s) - 1)) * 10 + DigitValue(CharAt(s, Len(s)))

\* n in decimal, zero-padded to w digits (0 <= n < 10^w)
RECURSIVE Pad(_, _)
Pad(n, w) ==
    IF w = 0 THEN "" ELSE Pad(n \div 10, w - 1) \o CharAt(Digits, (n % 10) + 1)

\* str.replace(old, new) for a one-character old
RECURSIVE Replace(_, _, _)
Replace(s, old, new) ==
    IF s = "" THEN ""
    ELSE (IF CharAt(s, 1) = old THEN new ELSE CharAt(s, 1))
             \o Replace(SubSeq(s, 2, Len(s)), old, new)

DateTime(y, mo, d, h, mi, s, tz) ==
    [year |-> y, month |-> mo, day |-> d,
     hour |-> h, minute |-> mi, second |-> s, tz |-> tz]

IsLeap(y) == y % 4 = 0 /\ (y % 100 # 0 \/ y % 400 = 0)

DaysInMonth(y, m) ==
    CASE m \in {4, 6, 9, 11} -> 30
      [] m = 2 -> IF IsLeap(y) THEN 29 ELSE 28
      [] OTHER -> 31

DaysBeforeYear(y) ==
    (y - 1) * 365 + (y - 1) \div 4 - (y - 1) \div 100 + (y - 1) \div 400

RECURSIVE DaysBeforeMonth(_, _)
DaysBeforeMonth(y, m) ==
    IF m = 1 THEN 0 ELSE DaysBeforeMonth(y, m - 1) + DaysInMonth(y, m - 1)

\* date.toordinal(): 0001-01-01 is day 1
ToOrdinal(y, m, d) == DaysBeforeYear(y) + DaysBeforeMonth(y, m) + d

\* date.fromordinal(n), for 1 <= n <= ToOrdinal(9999, 12, 31)
FromOrdinal(n) ==
    LET y == CHOOSE yy \in ((n - 1) \div 366 + 1)..((n - 1) \div 365 + 1) :
                 DaysBeforeYear(yy) < n /\ n <= DaysBeforeYear(yy + 1)
        rest == n - DaysBeforeYear(y)
        m == CHOOSE mm \in 1..12 :
                 /\ DaysBeforeMonth(y, mm) < rest
                 /\ rest <= DaysBeforeMonth(y, mm) + DaysInMonth(y, mm)
    IN  [year |-> y, month |-> m, day |-> rest - DaysBeforeMonth(y, m)]

\* the seconds of dt since its midnight
SecondOfDay(dt) == dt.hour * 3600 + dt.minute * 60 + dt.second

\* datetime.fromisoformat(s) for the forms YYYY-MM-DD, YYYY-MM-DD?HH:MM:SS
\* and YYYY-MM-DD?HH:MM:SS+00:00 (? is any one character); every other
\* string of the model's inputs is one Python rejects as well
fromisoformat(s) ==
    LET n == Len(s)
        dateOk == /\ n >= 10
                  /\ CharAt(s, 5) = "-" /\ CharAt(s, 8) = "-"
                  /\ AllDigits(SubSeq(s, 1, 4))
                  /\ AllDigits(SubSeq(s, 6, 7))
                  /\ AllDigits(SubSeq(s, 9, 10))
        timeOk == \/ n = 10
                  \/ /\ n >= 19
                     /\ CharAt(s, 14) = ":" /\ CharAt(s, 17) = ":"
                     /\ AllDigits(SubSeq(s, 12, 13))
                     /\ AllDigits(SubSeq(s, 15, 16))
                     /\ AllDigits(SubSeq(s, 18, 19))
        tzOk == n \in {10, 19} \/ SubSeq(s, 20, n) = "+00:00"
        y == IntOf(SubSeq(s, 1, 4))
        mo == IntOf(SubSeq(s, 6, 7))
        d == IntOf(SubSeq(s, 9, 10))
        h == IF n = 10 THEN 0 ELSE IntOf(SubSeq(s, 12, 13))
        mi == IF n = 10 THEN 0 ELSE IntOf(SubSeq(s, 15, 16))
        sec == IF n = 10 THEN 0 ELSE IntOf(SubSeq(s, 18, 19))
        tz == IF n > 19 THEN SubSeq(s, 20, n) ELSE ""
    IN  IF ~(dateOk /\ timeOk /\ tzOk)
        THEN Raise("ValueError", "Invalid isoformat string: '" \o s \o "'")
        ELSE IF y < 1
        THEN Raise("ValueError", "year " \o ToString(y) \o " is out of range")
        ELSE IF mo \notin 1..12
        THEN Raise("ValueError", "month must be in 1..12")
        ELSE IF d \notin 1..DaysInMonth(y, mo)
        THEN Raise("ValueError", "day is out of range for month")
        ELSE IF h > 23
        THEN Raise("ValueError", "hour must be in 0..23")
        ELSE IF mi > 59
        THEN Raise("ValueError", "minute must be in 0..59")
        ELSE IF sec > 59
        THEN Raise("ValueError", "second must be in 0..59")
        ELSE Return(DateTime(y, mo, d, h, mi, sec, tz))

\* a Python float: a fraction, not-a-number or infinity
NaN == [nan |-> TRUE]
Infinity == [inf |-> TRUE]

\* timedelta(hours=hours), normalised as Python does: days and the seconds
\* 0..86399 of the last day
timedelta(hours) ==
    IF hours = NaN
    THEN Raise("ValueError", "cannot convert float NaN to integer")
    ELSE IF hours = Infinity
    THEN Raise("OverflowError", "cannot convert float infinity to integer")
    ELSE LET seconds == (hours.num * 3600) \div hours.den
         IN  IF seconds \div 86400 \notin -999999999..999999999
             THEN Raise("OverflowError", "days out of range")
             ELSE Return([days |-> seconds \div 86400,
                          seconds |-> seconds % 86400])

\* the mutant of Plus: the timedelta is dropped
PlusNothing(dt, delta) == Return(dt)

\* datetime.__add__: dt + delta
Plus(dt, delta) ==
    LET seconds == SecondOfDay(dt) + delta.seconds
        ordinal == ToOrdinal(dt.year, dt.month, dt.day) + delta.days
                       + seconds \div 86400
        rest == seconds % 86400
        date == FromOrdinal(ordinal)
    IN  IF ordinal < 1 \/ ordinal > ToOrdinal(9999, 12, 31)
        THEN Raise("OverflowError", "date value out of range")
        ELSE Return(DateTime(date.year, date.month, date.day,
                             rest \div 3600, (rest % 3600) \div 60, rest % 60,
                             dt.tz))

\* datetime.isoformat()
isoformat(dt) ==
    Pad(dt.year, 4) \o "-" \o Pad(dt.month, 2) \o "-" \o Pad(dt.day, 2)
        \o "T" \o Pad(dt.hour, 2) \o ":" \o Pad(dt.minute, 2)
        \o ":" \o Pad(dt.second, 2) \o dt.tz

\* datetime.strftime('%Y%m%d%H%M%S')
strftime(dt) ==
    Pad(dt.year, 4) \o Pad(dt.month, 2) \o Pad(dt.day, 2)
        \o Pad(dt.hour, 2) \o Pad(dt.minute, 2) \o Pad(dt.second, 2)

\* the date and time at which the clock starts
ClockStart == DateTime(2025, 12, 1, 9, 59, 0, "")

\* datetime.now() when the clock reads t
datetime_now(t) == Plus(ClockStart, [days |-> 0, seconds |-> t]).value

(***************************************************************************)
(* tools/gmail_tool.py and tools/calendar_tool.py (ToolsSpec).             *)
(***************************************************************************)

Failure(error_msg) == [success |-> FALSE, error |-> error_msg]

\* try: tried
\* except ValueError as e: error_msg = onValueError + str(e)
\* except Exception as e: error_msg = onException + str(e)
\* and both handlers return {"success": False, "error": error_msg}
Try(tried, onValueError, onException) ==
    CASE tried.raised = "" -> tried
      [] tried.raised = "ValueError" -> Return(Failure(onValueError \o tried.msg))
      [] OTHER -> Return(Failure(onException \o tried.msg))

\* body[:100] + "..." if len(body) > 100 else body
BodyPreview(body) ==
    IF Len(body) > 100 THEN SubSeq(body, 1, 100) \o "..." ELSE body

\* the mutant of GmailDraft: the address is not validated
GmailDraftUnvalidated(to, subject, body, cc, bcc, t) ==
    Return([success |-> TRUE,
            draft_id |-> "draft_" \o strftime(datetime_now(t)),
            to |-> to, cc |-> cc, bcc |-> bcc, subject |-> subject,
            body_preview |-> BodyPreview(body),
            created_at |-> isoformat(datetime_now(t)),
            status |-> "draft",
            message |-> "Draft created successfully. Review and send from Gmail."])

\* GmailDraft with the recipient in the draft_id
GmailDraftNamedByRecipient(to, subject, body, cc, bcc, t) ==
    IF ~Contains(to, "@")
    THEN Raise("ValueError", "Invalid email address: " \o to)
    ELSE Return([success |-> TRUE,
                 draft_id |-> "draft_" \o to \o "_" \o strftime(datetime_now(t)),
                 to |-> to, cc |-> cc, bcc |-> bcc, subject |-> subject,
                 body_preview |-> BodyPreview(body),
                 created_at |-> isoformat(datetime_now(t)),
                 status |-> "draft",
                 message |-> "Draft created successfully. Review and send from Gmail."])

\* the body of the try statement of create_gmail_draft
GmailDraft(to, subject, body, cc, bcc, t) ==
    IF ~Contains(to, "@")
    THEN Raise("ValueError", "Invalid email address: " \o to)
    ELSE Return([success |-> TRUE,
                 draft_id |-> "draft_" \o strftime(datetime_now(t)),
                 to |-> to, cc |-> cc, bcc |-> bcc, subject |-> subject,
                 body_preview |-> BodyPreview(body),
                 created_at |-> isoformat(datetime_now(t)),
                 status |-> "draft",
                 message |-> "Draft created successfully. Review and send from Gmail."])

\* create_gmail_draft(to, subject, body, cc, bcc), the clock reading t
create_gmail_draft(to, subject, body, cc, bcc, t) ==
    Try(GmailDraft(to, subject, body, cc, bcc, t),
        "", "Failed to create draft: ")

\* the body of the try statement of create_calendar_event
CalendarEvent(title, start_time, duration_hours, description, location, reminder_minutes, t) ==
    LET start_dt == fromisoformat(Replace(start_time, "Z", "+00:00"))
        delta == timedelta(duration_hours)
        end_dt == Plus(start_dt.value, delta.value)
    IN  IF start_dt.raised # "" THEN start_dt
        ELSE IF delta.raised # "" THEN delta
        ELSE IF end_dt.raised # "" THEN end_dt
        ELSE Return([success |-> TRUE,
                     event_id |-> "mock_event_" \o strftime(datetime_now(t)),
                     title |-> title,
                     start |-> isoformat(start_dt.value),
                     end |-> isoformat(end_dt.value),
                     description |-> description,
                     location |-> location,
                     html_link |->
                         "https://calendar.google.com/calendar/event?eid=mock123",
                     reminder |-> ToString(reminder_minutes) \o " minutes before",
                     status |-> "confirmed"])

\* create_calendar_event(title, start_time, duration_hours, description,
\* location, reminder_minutes), the clock reading t
create_calendar_event(title, start_time, duration_hours, description, location, reminder_minutes, t) ==
    Try(CalendarEvent(title, start_time, duration_hours, description,
                      location, reminder_minutes, t),
        "Invalid date format: ", "Failed to create event: ")

\* the defaults of create_calendar_event's parameters
DefaultDurationHours == Fraction(1, 1)
DefaultReminderMinutes == 30

\* an argument the caller leaves out
Unset == [type |-> "unset"]
Integer(n) == [type |-> "int", value |-> n]
OrDefault(arg, default) == IF arg = Unset THEN default ELSE arg

\* a body of 101 characters
LongBody ==
    "Dear Geico Team, I would like to renew my policy before it expires at the end of the month. Thank you"

Recipients == {"test@example.com", "invalid-email", "", "@"}
Subjects == {"Test Subject", ""}
Bodies == {"Test body", LongBody}
Copies == {None, Str("boss@example.com")}

Titles == {"Test Event", ""}
StartTimes == {
    "2025-12-15T14:00:00", "2025-12-15T10:00:00Z", "2025-12-15",
    "2025-12-31T23:30:00", "2024-02-28T23:30:00",
    "9999-12-31T23:30:00", "0001-01-01T00:00:00",
    "not-a-date", "2025-02-30T10:00:00", "2025-12-15T24:00:00", "" }
Durations == {Unset, Fraction(3, 2), Fraction(-1, 1), NaN, Infinity}
Reminders == {Unset, Integer(10)}

\* The tools' inputs: a call of one of the tools waits to be made.
ToolsInit ==
    /\ now = 0
    /\ sessions = <<>>
    /\ quadrants = [q \in {QuadrantNames[i] : i \in 1..Len(QuadrantNames)} |-> <<>>]
    /\ client = FALSE
    /\ categorized = 0
    /\ call \in
         {[op |-> "gmail_arguments", to |-> to, subject |-> subject,
           body |-> body, cc |-> cc] :
              to \in Recipients, subject \in Subjects, body \in Bodies,
              cc \in Copies}
         \cup
         {[op |-> "calendar_arguments", title |-> title,
           start_time |-> start_time, duration_hours |-> duration_hours,
           reminder_minutes |-> reminder_minutes] :
              title \in Titles, start_time \in StartTimes,
              duration_hours \in Durations, reminder_minutes \in Reminders}

\* a second passes
TickSecond ==
    /\ now < MaxSeconds
    /\ now' = now + 1
    /\ UNCHANGED <<sessions, quadrants, client, categorized, call>>

\* create_gmail_draft(call.to, call.subject, call.body, cc=call.cc)
CreateGmailDraft ==
    /\ call.op = "gmail_arguments"
    /\ call' = [op |-> "create_gmail_draft", to |-> call.to,
                subject |-> call.subject, body |-> call.body, cc |-> call.cc,
                at |-> now,
                outcome |-> create_gmail_draft(call.to, call.subject, call.body,
                                               call.cc, None, now)]
    /\ UNCHANGED <<now, sessions, quadrants, client, categorized>>

\* create_calendar_event(call.title, call.start_time), with duration_hours
\* and reminder_minutes when they are set
CreateCalendarEvent ==
    /\ call.op = "calendar_arguments"
    /\ call' = [op |-> "create_calendar_event", title |-> call.title,
                start_time |-> call.start_time,
                duration_hours |-> call.duration_hours,
                reminder_minutes |-> call.reminder_minutes, at |-> now,
                outcome |-> create_calendar_event(
                    call.title, call.start_time,
                    OrDefault(call.duration_hours, DefaultDurationHours),
                    "", "",
                    OrDefault(call.reminder_minutes,
                              Integer(DefaultReminderMinutes)).value,
                    now)]
    /\ UNCHANGED <<now, sessions, quadrants, client, categorized>>

ToolsNext ==
    \/ TickSecond
    \/ CreateGmailDraft
    \/ CreateCalendarEvent

ToolsSpec == ToolsInit /\ [][ToolsNext]_vars

----------------------------------------------------------------------------
(***************************************************************************)
(* Python values of mixed type: every value carries its type.  A dict is   *)
(* the sequence of its items in insertion order.                           *)
(***************************************************************************)
Bool(b) == [type |-> "bool", value |-> b]
Item(key, value) == [key |-> key, value |-> value]
Dict(items) == [type |-> "dict", items |-> items]

\* key in d
Has(d, key) == \E i \in 1..Len(d.items) : d.items[i].key = key

\* d.get(key, default)
Get(d, key, default) ==
    IF Has(d, key)
    THEN d.items[CHOOSE i \in 1..Len(d.items) : d.items[i].key = key].value
    ELSE default

\* d[key] = value: the dict afterwards
Set(d, key, value) ==
    IF Has(d, key)
    THEN Dict([i \in 1..Len(d.items) |->
                  IF d.items[i].key = key THEN Item(key, value) ELSE d.items[i]])
    ELSE Dict(Append(d.items, Item(key, value)))

\* bool(d)
Truthy(d) == Len(d.items) > 0

\* repr of the characters of a str between the quotes quote
RECURSIVE Escape(_, _)
Escape(s, quote) ==
    IF Len(s) = 0 THEN ""
    ELSE IF Len(s) = 1
    THEN (CASE s = "\\" -> "\\\\"
            [] s = "\n" -> "\\n"
            [] s = quote -> "\\" \o quote
            [] OTHER -> s)
    ELSE Escape(SubSeq(s, 1, Len(s) \div 2), quote)
             \o Escape(SubSeq(s, Len(s) \div 2 + 1, Len(s)), quote)

\* repr(s) of a str: double quotes when s has a single quote and no double one
StrRepr(s) ==
    LET quote == IF Contains(s, "'") /\ ~Contains(s, "\"") THEN "\"" ELSE "'"
    IN  quote \o Escape(s, quote) \o quote

\* repr(v)
RECURSIVE Repr(_)
Repr(v) ==
    LET RECURSIVE ItemsFrom(_)
        ItemsFrom(i) ==
            IF i > Len(v.items) THEN ""
            ELSE (IF i > 1 THEN ", " ELSE "")
                     \o StrRepr(v.items[i].key) \o ": " \o Repr(v.items[i].value)
                     \o ItemsFrom(i + 1)
    IN  CASE v.type = "str" -> StrRepr(v.value)
          [] v.type = "NoneType" -> "None"
          [] v.type = "bool" -> IF v.value THEN "True" ELSE "False"
          [] v.type = "dict" -> "{" \o ItemsFrom(1) \o "}"

\* str(d) of a dict
str(d) == Str(Repr(d))

\* s.strip()
RECURSIVE Strip(_)
Strip(s) ==
    IF s = "" THEN ""
    ELSE IF CharAt(s, 1) \in {" ", "\n", "\t"} THEN Strip(SubSeq(s, 2, Len(s)))
    ELSE IF CharAt(s, Len(s)) \in {" ", "\n", "\t"} THEN Strip(SubSeq(s, 1, Len(s) - 1))
    ELSE s

\* s.split(): the words of s between runs of whitespace
RECURSIVE SplitFrom(_, _, _)
SplitFrom(s, i, word) ==
    IF i > Len(s) THEN (IF word = "" THEN <<>> ELSE <<word>>)
    ELSE IF CharAt(s, i) \in {" ", "\n", "\t"}
    THEN (IF word = "" THEN <<>> ELSE <<word>>) \o SplitFrom(s, i + 1, "")
    ELSE SplitFrom(s, i + 1, word \o CharAt(s, i))

Split(s) == SplitFrom(s, 1, "")

\* sep.join(words)
RECURSIVE Join(_, _)
Join(sep, words) ==
    IF words = <<>> THEN ""
    ELSE IF Len(words) = 1 THEN words[1]
    ELSE words[1] \o sep \o Join(sep, Tail(words))

(***************************************************************************)
(* tools/profile_tool.py: get_profile_info and get_renewal_status.         *)
(***************************************************************************)
\* data/profile_data.py: USER_PROFILE.split('\n')
ProfileLines == <<
    "",
    "=== IDENTITY DOCUMENTS ===",
    "",
    "DRIVER'S LICENSE:",
    "  - License Number: D99887766",
    "  - State: California (CA)",
    "  - Issue Date: 2021-12-15",
    "  - Expiration Date: 2025-12-15",
    "  - Class: C (Standard)",
    "  - Address on file: 123 Main Street, San Francisco, CA 94102",
    "",
    "PASSPORT:",
    "  - Passport Number: P11223344",
    "  - Country: United States",
    "  - Issue Date: 2019-05-20",
    "  - Expiration Date: 2029-05-20",
    "  - Place of Issue: San Francisco Passport Agency",
    "",
    "SOCIAL SECURITY:",
    "  - Last 4 digits: XXX-XX-4567 (full number secured)",
    "",
    "=== INSURANCE POLICIES ===",
    "",
    "AUTO INSURANCE:",
    "  - Provider: Geico",
    "  - Policy Number: 999-000-1234",
    "  - Coverage: Full Coverage",
    "  - Premium: $150/month",
    "  - Expiration Date: 2024-12-01 (NEEDS RENEWAL!)",
    "  - Vehicles Covered: 2020 Toyota Camry (VIN: 1HGBH41JXMN109186)",
    "",
    "HEALTH INSURANCE:",
    "  - Provider: Blue Shield of California",
    "  - Policy Number: BSC-789456",
    "  - Plan: PPO Gold",
    "  - Premium: $450/month (employer subsidized)",
    "  - Member ID: 123456789",
    "",
    "RENTERS INSURANCE:",
    "  - Provider: Lemonade",
    "  - Policy Number: LEM-2024-5678",
    "  - Coverage: $30,000 personal property",
    "  - Premium: $15/month",
    "  - Expiration Date: 2025-03-15",
    "",
    "=== PERSONAL INFORMATION ===",
    "",
    "NAME: John Michael Doe",
    "DATE OF BIRTH: May 15, 1990",
    "EMAIL: johndoe@email.com",
    "PHONE: +1 (555) 123-4567",
    "ADDRESS: ",
    "  123 Main Street, Apt 4B",
    "  San Francisco, CA 94102",
    "",
    "EMERGENCY CONTACT:",
    "  - Name: Jane Doe (Sister)",
    "  - Phone: +1 (555) 987-6543",
    "  - Relationship: Sibling",
    "",
    "=== PREFERENCES ===",
    "",
    "WORK SCHEDULE:",
    "  - Work Hours: 9:00 AM - 5:00 PM PST",
    "  - Work Days: Monday - Friday",
    "  - Lunch Break: 12:00 PM - 1:00 PM",
    "",
    "ENERGY PATTERNS:",
    "  - Morning (6-10 AM): LOW energy - prefer easy tasks",
    "  - Mid-day (10 AM - 2 PM): HIGH energy - good for deep work",
    "  - Afternoon (2-6 PM): MEDIUM energy - meetings okay",
    "  - Evening (6+ PM): LOW energy - wind down",
    "",
    "COMMUNICATION PREFERENCES:",
    "  - Preferred: Email",
    "  - Secondary: Text message",
    "  - Do not disturb: 10 PM - 7 AM",
    ""
>>

\* search_patterns in the order of the dictionary; info is what pattern
\* matches in USER_PROFILE (its group 1), context what context_pattern
\* matches, stripped
SearchPatterns == <<
    [key |-> "license",
     info |-> "D99887766",
     context |-> "DRIVER'S LICENSE:\n  - License Number: D99887766\n  - State: California (CA)\n  - Issue Date: 2021-12-15\n  - Expiration Date: 2025-12-15\n  - Class: C (Standard)\n  - Address on file: 123 Main Street, San Francisco, CA 94102",
     description |-> "Driver's License"],
    [key |-> "passport",
     info |-> "P11223344",
     context |-> "PASSPORT:\n  - Passport Number: P11223344\n  - Country: United States\n  - Issue Date: 2019-05-20\n  - Expiration Date: 2029-05-20\n  - Place of Issue: San Francisco Passport Agency",
     description |-> "Passport"],
    [key |-> "insurance",
     info |-> "999-000-1234",
     context |-> "AUTO INSURANCE:\n  - Provider: Geico\n  - Policy Number: 999-000-1234\n  - Coverage: Full Coverage\n  - Premium: $150/month\n  - Expiration Date: 2024-12-01 (NEEDS RENEWAL!)\n  - Vehicles Covered: 2020 Toyota Camry (VIN: 1HGBH41JXMN109186)",
     description |-> "Auto Insurance"],
    [key |-> "address",
     info |-> "123 Main Street, Apt 4B",
     context |-> "ADDRESS: \n  123 Main Street, Apt 4B\n  San Francisco, CA 94102",
     description |-> "Home Address"],
    [key |-> "phone",
     info |-> "+1 (555) 123-4567\n",
     context |-> "PHONE: +1 (555) 123-4567",
     description |-> "Phone Number"],
    [key |-> "email",
     info |-> "johndoe@email.com",
     context |-> "EMAIL: johndoe@email.com",
     description |-> "Email Address"],
    [key |-> "emergency",
     info |-> "+1 (555) 987-6543\n  - ",
     context |-> "EMERGENCY CONTACT:\n  - Name: Jane Doe (Sister)\n  - Phone: +1 (555) 987-6543\n  - Relationship: Sibling",
     description |-> "Emergency Contact"]
>>

\* line.strip() of the first n lines of the profile in which a term occurs
MatchingLines(terms, n) ==
    LET lines == SelectSeq(ProfileLines,
                           LAMBDA line : \E k \in 1..Len(terms) :
                                             Contains(Lower(line), terms[k]))
    IN  [i \in 1..(IF Len(lines) < n THEN Len(lines) ELSE n) |-> Strip(lines[i])]

\* the mutant of get_profile_info: the last key found in the query is used
get_profile_info_last_key(query) ==
    LET query_lower == Lower(query)
        hits == {i \in 1..Len(SearchPatterns) :
                     Contains(query_lower, SearchPatterns[i].key)}
        config == SearchPatterns[CHOOSE i \in hits : \A j \in hits : i >= j]
    IN  IF hits # {}
        THEN Dict(<<Item("found", Bool(TRUE)),
                    Item("query", Str(query)),
                    Item("info", Str(config.info)),
                    Item("context", Str(config.context)),
                    Item("type", Str(config.description))>>)
        ELSE Dict(<<Item("found", Bool(FALSE)),
                    Item("query", Str(query)),
                    Item("info", None),
                    Item("context", None)>>)

\* get_profile_info(query)
get_profile_info(query) ==
    LET query_lower == Lower(query)
        hits == {i \in 1..Len(SearchPatterns) :
                     Contains(query_lower, SearchPatterns[i].key)}
        config == SearchPatterns[CHOOSE i \in hits : \A j \in hits : i <= j]
        matching_lines == MatchingLines(Split(query_lower), 5)
    IN  IF hits # {}
        THEN Dict(<<Item("found", Bool(TRUE)),
                    Item("query", Str(query)),
                    Item("info", Str(config.info)),
                    Item("context", Str(config.context)),
                    Item("type", Str(config.description))>>)
        ELSE IF matching_lines # <<>>
        THEN Dict(<<Item("found", Bool(TRUE)),
                    Item("query", Str(query)),
                    Item("info", Str(Join("\n", matching_lines))),
                    Item("context", None),
                    Item("type", Str("General Search"))>>)
        ELSE Dict(<<Item("found", Bool(FALSE)),
                    Item("query", Str(query)),
                    Item("info", None),
                    Item("context", None)>>)

\* data/profile_data.py: the priorities of get_urgent_items()
UrgentPriorities == <<"CRITICAL", "HIGH">>

\* get_renewal_status()["action_required"]
ActionRequired ==
    Cardinality({i \in 1..Len(UrgentPriorities) :
                     UrgentPriorities[i] \in {"CRITICAL", "HIGH"}})

(***************************************************************************)
(* agents/admin_agent.py and agents/productivity_agent.py.  Of a result,   *)
(* the entries whose values are texts are modelled; the entries that hold  *)
(* fixed lists or nested dictionaries (required_info, status,              *)
(* suggested_actions, capabilities, suggested_blocks, recommendations,     *)
(* avoid, quick_tips, quick_actions) are left out.                         *)
(***************************************************************************)
_handle_calendar_request ==
    Dict(<<Item("agent", Str("AdminAgent")),
           Item("action", Str("calendar_suggestion")),
           Item("message", Str("I can help you create a calendar event. Please provide:")),
           Item("example", Str("Example: 'Create a calendar event for DMV appointment on Dec 10 at 2pm'")),
           Item("tool_available", Str("create_calendar_event"))>>)

_handle_email_request ==
    Dict(<<Item("agent", Str("AdminAgent")),
           Item("action", Str("email_suggestion")),
           Item("message", Str("I can draft an email for you. Please provide:")),
           Item("tool_available", Str("create_gmail_draft"))>>)

_handle_renewal_request ==
    Dict(<<Item("agent", Str("AdminAgent")),
           Item("action", Str("renewal_status")),
           Item("message", Str("Found " \o ToString(ActionRequired)
                                   \o " items requiring attention."))>>)

_handle_general_admin ==
    Dict(<<Item("agent", Str("AdminAgent")),
           Item("action", Str("general_help")),
           Item("message", Str("I can help with life admin tasks."))>>)

\* the mutant of AdminAgent.process: renewal keywords are tried before the
\* email keywords
AdminAgent_process_renewal_first(query) ==
    LET query_lower == Lower(query)
    IN  IF ContainsAny(query_lower, <<"calendar", "event", "appointment", "schedule">>)
        THEN _handle_calendar_request
        ELSE IF ContainsAny(query_lower, <<"renewal", "renew", "expir", "deadline", "due">>)
        THEN _handle_renewal_request
        ELSE IF ContainsAny(query_lower, <<"email", "draft", "mail", "write">>)
        THEN _handle_email_request
        ELSE _handle_general_admin

\* AdminAgent.process(query, context)
AdminAgent_process(query) ==
    LET query_lower == Lower(query)
    IN  IF ContainsAny(query_lower, <<"calendar", "event", "appointment", "schedule">>)
        THEN _handle_calendar_request
        ELSE IF ContainsAny(query_lower, <<"email", "draft", "mail", "write">>)
        THEN _handle_email_request
        ELSE IF ContainsAny(query_lower, <<"renewal", "renew", "expir", "deadline", "due">>)
        THEN _handle_renewal_request
        ELSE _handle_general_admin

\* datetime.strftime("%Y-%m-%d %H:%M %Z") of a naive datetime, for which %Z
\* is the empty string
strftime_minute(dt) ==
    Pad(dt.year, 4) \o "-" \o Pad(dt.month, 2) \o "-" \o Pad(dt.day, 2)
        \o " " \o Pad(dt.hour, 2) \o ":" \o Pad(dt.minute, 2) \o " "

\* get_prioritization_prompt(task_list, energy_level), the clock reading t:
\* EISENHOWER_PROMPT up to the task list (what follows has no field)
get_prioritization_prompt(task_list, energy_level, t) ==
    "\nYou are a productivity expert using the Eisenhower Matrix framework.\n\nCONTEXT:\n"
        \o "- Current date/time: " \o strftime_minute(datetime_now(t)) \o "\n"
        \o "- User's energy level: " \o energy_level \o "\n"
        \o "- User's work hours: 9 AM - 5 PM PST\n\nUSER'S TASK LIST:\n"
        \o task_list \o "\n"

\* the context that process_query passes to an agent
SessionContext == Dict(<<Item("session", [type |-> "InMemorySession"])>>)

\* _extract_energy_level with the context asked before the words of the query
_extract_energy_level_context_first(query, context, t) ==
    IF Has(context, "energy_level")
    THEN Get(context, "energy_level", None)
    ELSE IF ContainsAny(query, <<"tired", "exhausted", "low", "lazy", "sleepy">>)
    THEN Str("LOW")
    ELSE IF ContainsAny(query, <<"energetic", "motivated", "pumped", "high">>)
    THEN Str("HIGH")
    ELSE IF datetime_now(t).hour < 10 THEN Str("LOW")
    ELSE IF datetime_now(t).hour < 14 THEN Str("HIGH")
    ELSE Str("MEDIUM")

\* ProductivityAgent._extract_energy_level(query, context), the clock
\* reading t
_extract_energy_level(query, context, t) ==
    IF ContainsAny(query, <<"tired", "exhausted", "low", "lazy", "sleepy">>)
    THEN Str("LOW")
    ELSE IF ContainsAny(query, <<"energetic", "motivated", "pumped", "high">>)
    THEN Str("HIGH")
    ELSE IF Has(context, "energy_level")
    THEN Get(context, "energy_level", None)
    ELSE IF datetime_now(t).hour < 10 THEN Str("LOW")
    ELSE IF datetime_now(t).hour < 14 THEN Str("HIGH")
    ELSE Str("MEDIUM")

\* ProductivityAgent._handle_prioritization(query, energy_level, context),
\* the clock reading t
_handle_prioritization(energy_level, context, t) ==
    LET task_list == Get(context, "task_list", Str(""))
    IN  IF task_list.value = ""
        THEN Dict(<<Item("agent", Str("ProductivityAgent")),
                    Item("action", Str("request_tasks")),
                    Item("message", Str("I'll help you prioritize your tasks using the Eisenhower Matrix.")),
                    Item("prompt", Str("Please share your task list, and I'll categorize them by urgency and importance.")),
                    Item("energy_level", energy_level),
                    Item("note", Str("Based on your " \o energy_level.value
                                         \o " energy, I'll suggest appropriate tasks to focus on."))>>)
        ELSE Dict(<<Item("agent", Str("ProductivityAgent")),
                    Item("action", Str("prioritize")),
                    Item("energy_level", energy_level),
                    Item("prioritization_prompt",
                         Str(get_prioritization_prompt(task_list.value, energy_level.value, t))),
                    Item("message", Str("Ready to prioritize tasks for " \o energy_level.value
                                            \o " energy level."))>>)

_handle_scheduling(energy_level) ==
    Dict(<<Item("agent", Str("ProductivityAgent")),
           Item("action", Str("schedule")),
           Item("energy_level", energy_level),
           Item("message", Str("Here's a suggested time-blocked schedule based on your energy patterns."))>>)

_handle_low_energy ==
    Dict(<<Item("agent", Str("ProductivityAgent")),
           Item("action", Str("low_energy_mode")),
           Item("energy_level", Str("LOW")),
           Item("message", Str("When energy is low, focus on easy wins and administrative tasks. Save deep work for when you're more energized."))>>)

_handle_high_energy ==
    Dict(<<Item("agent", Str("ProductivityAgent")),
           Item("action", Str("high_energy_mode")),
           Item("energy_level", Str("HIGH")),
           Item("time_suggestion", Str("Block 2-3 hours for uninterrupted deep work")),
           Item("message", Str("High energy is prime time! Focus on your most important and challenging tasks now."))>>)

_handle_general_productivity ==
    Dict(<<Item("agent", Str("ProductivityAgent")),
           Item("action", Str("general_help")),
           Item("message", Str("I can help optimize your productivity."))>>)

\* ProductivityAgent.process(query, context), the clock reading t; a context
\* of None is taken as the empty dict
ProductivityAgent_process(query, context_or_none, t) ==
    LET query_lower == Lower(query)
        context == IF context_or_none = None THEN Dict(<<>>) ELSE context_or_none
        energy_level == _extract_energy_level(query_lower, context, t)
    IN  IF ContainsAny(query_lower, <<"prioritize", "priority", "eisenhower", "important">>)
        THEN _handle_prioritization(energy_level, context, t)
        ELSE IF ContainsAny(query_lower, <<"schedule", "time block", "plan", "daily">>)
        THEN _handle_scheduling(energy_level)
        ELSE IF ContainsAny(query_lower, <<"tired", "low energy", "exhausted", "lazy">>)
        THEN _handle_low_energy
        ELSE IF ContainsAny(query_lower, <<"productive", "focus", "motivated", "energetic">>)
        THEN _handle_high_energy
        ELSE _handle_general_productivity

(***************************************************************************)
(* main.py: LifeAdminConcierge (ConciergeSpec).                            *)
(***************************************************************************)

\* LifeAdminConcierge._handle_general_query(query, session)
_handle_general_query ==
    Dict(<<Item("agent", Str("general")),
           Item("message", Str("I'm your Life Admin Concierge. I can help you with:"))>>)

\* the mutant of Handle: the profile route falls through to the else branch
HandleWithoutProfile(target_agent, query, t) ==
    IF target_agent = "admin_agent"
    THEN [handler |-> "AdminAgent.process", result |-> AdminAgent_process(query)]
    ELSE IF target_agent = "productivity_agent"
    THEN [handler |-> "ProductivityAgent.process",
          result |-> ProductivityAgent_process(query, SessionContext, t)]
    ELSE [handler |-> "_handle_general_query", result |-> _handle_general_query]

\* the if/elif chain of process_query: the handler it invokes and the result
Handle(target_agent, query, t) ==
    IF target_agent = "admin_agent"
    THEN [handler |-> "AdminAgent.process", result |-> AdminAgent_process(query)]
    ELSE IF target_agent = "productivity_agent"
    THEN [handler |-> "ProductivityAgent.process",
          result |-> ProductivityAgent_process(query, SessionContext, t)]
    ELSE IF target_agent = "profile_agent"
    THEN [handler |-> "get_profile_info", result |-> get_profile_info(query)]
    ELSE [handler |-> "_handle_general_query", result |-> _handle_general_query]

\* what client.models.generate_content(...).text may do: give a text, give
\* None, or raise an Exception
Generated == {
    Return(Str("Here is what I suggest.")),
    Return(None),
    Raise("ServerError", "503 UNAVAILABLE") }

\* the mutant of _enhance_with_llm: a failure leaves the result as it was
_enhance_with_llm_or_not(agent_result, generated) ==
    IF generated.raised = ""
    THEN Set(Set(agent_result, "response", generated.value),
             "llm_enhanced", Bool(TRUE))
    ELSE agent_result

\* LifeAdminConcierge._enhance_with_llm(query, agent_result, session), given
\* what the one call of generate_content does
_enhance_with_llm(agent_result, generated) ==
    IF generated.raised = ""
    THEN Set(Set(agent_result, "response", generated.value),
             "llm_enhanced", Bool(TRUE))
    ELSE Set(Set(agent_result, "response", str(agent_result)),
             "llm_enhanced", Bool(FALSE))

\* the calls _enhance_with_llm makes
EnhanceCalls == <<"_enhance_with_llm", "generate_content">>

\* the queries of the model: one for each route, and the empty one
ConciergeQueries == {"Draft an email", "plan", "my phone", "Hello there", ""}

\* the session_id arguments of the model: none, or that of one session
SessionArguments == {NoId, "s1"}

\* the process_query calls whose messages the store holds
RECURSIVE Answered(_)
Answered(sids) ==
    IF sids = {} THEN 0
    ELSE LET sid == CHOOSE s \in sids : TRUE
         IN  Len(SelectSeq(sessions[sid].history, LAMBDA m : m.role = "assistant"))
                 + Answered(sids \ {sid})

\* target_agent in agents_invoked
Invoked(session, target_agent) ==
    \E i \in 1..Len(session.metadata.agents_invoked) :
        session.metadata.agents_invoked[i] = target_agent

\* the mutant of process_query: the session_id given is ignored
process_query_anew(store, query, session_id, routing, result, fresh, t1, t2) ==
    LET made == create_session(store, NoId, fresh, t2)
        asked == add_user_message(made.session, Str(query), t2)
        answered == add_assistant_message(
                        asked, Get(result, "response", str(result)), t2)
    IN  [sessions |-> [made.sessions EXCEPT ![answered.session_id] = answered],
         result |-> [query |-> query,
                     response |-> result,
                     routing |-> routing,
                     session_id |-> answered.session_id,
                     timestamp |-> isoformat(datetime_now(t2))]]

\* LifeAdminConcierge.process_query(query, session_id) on the session store,
\* given the routing that route(query) returns and the result of the handler
\* (enhanced or not): the store afterwards and the dict returned.  The clock
\* reads t1 when the call begins and t2 from the second reading of
\* get_session on
process_query(store, query, session_id, routing, result, fresh, t1, t2) ==
    LET got == get_or_create_session(store, session_id, fresh, t1, t2)
        asked == add_user_message(got.session, Str(query), t2)
        target_agent == routing.routed_to
        response_text == Get(result, "response", str(result))
        answered == add_assistant_message(asked, response_text, t2)
        session == IF Invoked(answered, target_agent)
                   THEN answered
                   ELSE [answered EXCEPT !.metadata.agents_invoked =
                                             Append(@, target_agent)]
    IN  [sessions |-> [got.sessions EXCEPT ![session.session_id] = session],
         result |-> [query |-> query,
                     response |-> result,
                     routing |-> routing,
                     session_id |-> session.session_id,
                     timestamp |-> isoformat(datetime_now(t2))]]

\* concierge.process_query(query, session_id); each value the code computes
\* once is drawn from the set of that one value
ProcessQuery(query) ==
    /\ Answered(DOMAIN sessions) < MaxQueries
    /\ \E routing \in {route(query)} :
       \E session_id \in SessionArguments,
          generated \in (IF client THEN Generated ELSE {None}) :
       \E d \in Delays(session_id), fresh \in FreshIds(session_id) :
       \E handled \in {Handle(routing.routed_to, query, now + d)} :
       \E result \in {IF client /\ Truthy(handled.result)
                      THEN _enhance_with_llm(handled.result, generated)
                      ELSE handled.result} :
       \E done \in {process_query(sessions, query, session_id, routing, result,
                                  fresh, now, now + d)} :
           /\ sessions' = done.sessions
           /\ now' = now + d
           /\ call' = [op |-> "process_query", query |-> query,
                       session_id |-> session_id, at |-> now,
                       before |-> Stored(session_id),
                       generated |-> generated,
                       handled |-> handled.result,
                       trace |-> <<"get_or_create_session", "add_user_message",
                                   "route", "send_a2a_message",
                                   handled.handler>>
                                 \o (IF client /\ Truthy(handled.result)
                                     THEN EnhanceCalls ELSE <<>>)
                                 \o <<"add_assistant_message">>,
                       result |-> done.result]
           /\ UNCHANGED <<quadrants, client, categorized>>

ConciergeNext ==
    \/ TickMinute
    \/ \E sid \in SessionArguments \ {NoId} : CreateSession(sid)
    \/ \E query \in ConciergeQueries : ProcessQuery(query)

ConciergeSpec == Init /\ [][ConciergeNext]_vars

----------------------------------------------------------------------------
(***************************************************************************)
(* session/memory.py: the conversation and the state of one session.       *)
(***************************************************************************)
MaxMessages == 3

\* the mutant of add_tool_result: the result is noted without a message id
\* of its own
add_tool_result_unnumbered(s, tool_name, result, t) ==
    LET message == [id |-> Len(s.history),
                    role |-> "tool",
                    content |-> str(result),
                    timestamp |-> t,
                    metadata |-> [tool_name |-> tool_name]]
    IN  [s EXCEPT !.history = Append(@, message),
                  !.last_activity = t,
                  !.metadata.message_count = @ + 1]

\* InMemorySession.add_tool_result at time t: the session afterwards
add_tool_result(s, tool_name, result, t) ==
    LET used == s.metadata.tools_used
        noted == IF \E i \in 1..Len(used) : used[i] = tool_name
                 THEN s
                 ELSE [s EXCEPT !.metadata.tools_used = Append(@, tool_name)]
    IN  add_message(noted, "tool", str(result), [tool_name |-> tool_name], t)

\* InMemorySession.get_history; last_n is None or an int.  `if last_n:` is
\* false for None and for 0; history[-n:] is the last n messages for n > 0
\* and history[k:] for n = -k
get_history(s, last_n) ==
    IF last_n = None \/ last_n.value = 0 THEN s.history
    ELSE IF last_n.value > 0
    THEN SubSeq(s.history, Max(1, Len(s.history) - last_n.value + 1), Len(s.history))
    ELSE SubSeq(s.history, 1 - last_n.value, Len(s.history))

\* the mutant of the loop: a message that does not fit is skipped and older
\* ones are still taken
RECURSIVE ContextSkipping(_, _, _, _)
ContextSkipping(history, i, total_chars, char_limit) ==
    IF i = 0 THEN <<>>
    ELSE LET msg_chars == Len(history[i].content.value)
         IN  IF total_chars + msg_chars > char_limit
             THEN ContextSkipping(history, i - 1, total_chars, char_limit)
             ELSE Append(ContextSkipping(history, i - 1, total_chars + msg_chars,
                                         char_limit),
                         history[i])

\* the loop of get_context_window from message i of the history downwards,
\* total_chars already taken: the context it builds
RECURSIVE ContextFrom(_, _, _, _)
ContextFrom(history, i, total_chars, char_limit) ==
    IF i = 0 THEN <<>>
    ELSE LET msg_chars == Len(history[i].content.value)
         IN  IF total_chars + msg_chars > char_limit THEN <<>>
             ELSE Append(ContextFrom(history, i - 1, total_chars + msg_chars,
                                     char_limit),
                         history[i])

\* InMemorySession.get_context_window
get_context_window(s, max_tokens) ==
    ContextFrom(s.history, Len(s.history), 0, max_tokens * 4)

\* InMemorySession.set_state at time t: the session afterwards
set_state(s, key, value, t) ==
    [s EXCEPT !.state = [k \in DOMAIN s.state \cup {key} |->
                            IF k = key THEN value ELSE s.state[k]],
              !.last_activity = t]

\* InMemorySession.get_state
get_state(s, key, default) ==
    IF key \in DOMAIN s.state THEN s.state[key] ELSE default

\* InMemorySession.update_state at time t: the session afterwards
update_state(s, updates, t) ==
    [s EXCEPT !.state = [k \in DOMAIN s.state \cup DOMAIN updates |->
                            IF k \in DOMAIN updates THEN updates[k]
                            ELSE s.state[k]],
              !.last_activity = t]

\* the mutant of clear_history: the count of messages is kept
clear_history_keeping_count(s) == [s EXCEPT !.history = <<>>]

\* InMemorySession.clear_history: the session afterwards
clear_history(s) ==
    [s EXCEPT !.history = <<>>, !.metadata.message_count = 0]

\* the sessions whose conversation is followed
MemoryIds == {"s1"}

\* contents of 0, 4 and 5 characters
MemoryContents == {Str(""), Str("plan"), Str("hello")}
Answers == {Str("done")}
ToolNames == {"create_calendar_event"}
ToolResults == {Dict(<<Item("success", Bool(TRUE))>>)}
StateKeys == {"energy_level"}
StateValues == {Str("HIGH"), Str("LOW")}
StateUpdates == {[energy_level |-> Str("LOW"), mode |-> Str("focus")]}
LastNs == {None} \cup {Integer(n) : n \in 0..MaxMessages + 1}
TokenBudgets == 0..3

\* session.add_user_message(content)
AddUserMessage(sid, content) ==
    /\ sid \in DOMAIN sessions
    /\ Len(sessions[sid].history) < MaxMessages
    /\ sessions' = [sessions EXCEPT ![sid] = add_user_message(@, content, now)]
    /\ call' = [op |-> "add_user_message", session_id |-> sid,
                result |-> sessions'[sid].history[Len(sessions'[sid].history)]]
    /\ UNCHANGED <<now, quadrants, client, categorized>>

\* session.add_assistant_message(content)
AddAssistantMessage(sid, content) ==
    /\ sid \in DOMAIN sessions
    /\ Len(sessions[sid].history) < MaxMessages
    /\ sessions' = [sessions EXCEPT ![sid] = add_assistant_message(@, content, now)]
    /\ call' = [op |-> "add_assistant_message", session_id |-> sid,
                result |-> sessions'[sid].history[Len(sessions'[sid].history)]]
    /\ UNCHANGED <<now, quadrants, client, categorized>>

\* session.add_tool_result(tool_name, result)
AddToolResult(sid, tool_name, result) ==
    /\ sid \in DOMAIN sessions
    /\ Len(sessions[sid].history) < MaxMessages
    /\ sessions' = [sessions EXCEPT ![sid] = add_tool_result(@, tool_name, result, now)]
    /\ call' = [op |-> "add_tool_result", session_id |-> sid,
                result |-> sessions'[sid].history[Len(sessions'[sid].history)]]
    /\ UNCHANGED <<now, quadrants, client, categorized>>

\* session.get_history(last_n)
GetHistory(sid, last_n) ==
    /\ sid \in DOMAIN sessions
    /\ call' = [op |-> "get_history", session_id |-> sid, last_n |-> last_n,
                result |-> get_history(sessions[sid], last_n)]
    /\ UNCHANGED <<now, sessions, quadrants, client, categorized>>

\* session.get_context_window(max_tokens)
GetContextWindow(sid, max_tokens) ==
    /\ sid \in DOMAIN sessions
    /\ call' = [op |-> "get_context_window", session_id |-> sid,
                max_tokens |-> max_tokens,
                result |-> get_context_window(sessions[sid], max_tokens)]
    /\ UNCHANGED <<now, sessions, quadrants, client, categorized>>

\* session.set_state(key, value)
SetState(sid, key, value) ==
    /\ sid \in DOMAIN sessions
    /\ sessions' = [sessions EXCEPT ![sid] = set_state(@, key, value, now)]
    /\ call' = [op |-> "set_state", session_id |-> sid, key |-> key,
                value |-> value]
    /\ UNCHANGED <<now, quadrants, client, categorized>>

\* session.get_state(key)
GetState(sid, key) ==
    /\ sid \in DOMAIN sessions
    /\ call' = [op |-> "get_state", session_id |-> sid, key |-> key,
                result |-> get_state(sessions[sid], key, None)]
    /\ UNCHANGED <<now, sessions, quadrants, client, categorized>>

\* session.update_state(updates)
UpdateState(sid, updates) ==
    /\ sid \in DOMAIN sessions
    /\ sessions' = [sessions EXCEPT ![sid] = update_state(@, updates, now)]
    /\ call' = [op |-> "update_state", session_id |-> sid, updates |-> updates]
    /\ UNCHANGED <<now, quadrants, client, categorized>>

\* session.clear_history()
ClearHistory(sid) ==
    /\ sid \in DOMAIN sessions
    /\ sessions' = [sessions EXCEPT ![sid] = clear_history(@)]
    /\ call' = [op |-> "clear_history", session_id |-> sid,
                before |-> sessions[sid]]
    /\ UNCHANGED <<now, quadrants, client, categorized>>

MemoryNext ==
    \/ \E sid \in MemoryIds : CreateSession(sid)
    \/ \E sid \in MemoryIds, content \in Contents : AddMessage(sid, "system", content)
    \/ \E sid \in MemoryIds, content \in MemoryContents : AddUserMessage(sid, content)
    \/ \E sid \in MemoryIds, content \in Answers : AddAssistantMessage(sid, content)
    \/ \E sid \in MemoryIds, tool_name \in ToolNames, result \in ToolResults :
           AddToolResult(sid, tool_name, result)
    \/ \E sid \in MemoryIds, last_n \in LastNs : GetHistory(sid, last_n)
    \/ \E sid \in MemoryIds, max_tokens \in TokenBudgets :
           GetContextWindow(sid, max_tokens)
    \/ \E sid \in MemoryIds, key \in StateKeys, value \in StateValues :
           SetState(sid, key, value)
    \/ \E sid \in MemoryIds, key \in StateKeys : GetState(sid, key)
    \/ \E sid \in MemoryIds, updates \in StateUpdates : UpdateState(sid, updates)
    \/ \E sid \in MemoryIds : ClearHistory(sid)

MemorySpec == SessionInit /\ [][MemoryNext]_vars

----------------------------------------------------------------------------
(***************************************************************************)
(* session/memory.py: SessionManager over sessions that converse, keep     *)
(* state and expire.  One call of the manager reads the clock at one       *)
(* instant, except get_session, which asks is_expired twice.               *)
(***************************************************************************)
\* the mutant of cleanup_expired: sessions idle for the timeout itself go too
cleanup_expired_at_timeout(store, t) ==
    LET expired == {sid \in DOMAIN store : is_expired_at_timeout(store[sid], t)}
    IN  [sessions |-> [sid \in DOMAIN store \ expired |-> store[sid]],
         result |-> Cardinality(expired)]

\* the loop of cleanup_expired: delete_session for every sid of expired
RECURSIVE DeleteEach(_, _)
DeleteEach(store, expired) ==
    IF expired = {} THEN store
    ELSE LET sid == CHOOSE s \in expired : TRUE
         IN  DeleteEach(delete_session(store, sid), expired \ {sid})

\* SessionManager.cleanup_expired at time t: the store afterwards and the
\* number returned
cleanup_expired(store, t) ==
    LET expired == {sid \in DOMAIN store : is_expired(store[sid], t)}
    IN  [sessions |-> DeleteEach(store, expired),
         result |-> Cardinality(expired)]

\* SessionManager.get_active_sessions at time t, as a set
get_active_sessions(store, t) ==
    {sid \in DOMAIN store : ~is_expired(store[sid], t)}

\* SessionManager.get_stats at time t
get_stats(store, t) ==
    [total_sessions |-> Cardinality(DOMAIN store),
     active_sessions |-> Cardinality(get_active_sessions(store, t)),
     default_timeout |-> TimeoutMinutes]

\* manager.cleanup_expired()
CleanupExpired ==
    LET cleaned == cleanup_expired(sessions, now)
    IN  /\ sessions' = cleaned.sessions
        /\ call' = [op |-> "cleanup_expired", at |-> now, before |-> sessions,
                    result |-> cleaned.result]
        /\ UNCHANGED <<now, quadrants, client, categorized>>

\* manager.get_stats()
GetStats ==
    /\ call' = [op |-> "get_stats", at |-> now, result |-> get_stats(sessions, now)]
    /\ UNCHANGED <<now, sessions, quadrants, client, categorized>>

ManagerNext ==
    \/ TickMinute
    \/ \E sid \in SessionIds \cup {NoId} : CreateSession(sid)
    \/ \E sid \in SessionIds, content \in Contents : AddMessage(sid, "user", content)
    \/ \E sid \in SessionIds : SetState(sid, "energy_level", Str("HIGH"))
    \/ \E sid \in SessionIds : ClearHistory(sid)
    \/ \E sid \in SessionIds \cup {NoId} : GetOrCreateSession(sid)
    \/ CleanupExpired
    \/ GetStats

ManagerSpec == SessionInit /\ [][ManagerNext]_vars

\* a conversation with tool results that is cleared as time passes, next to
\* another stored session
ClearNext ==
    \/ TickMinute
    \/ \E sid \in SessionIds : CreateSession(sid)
    \/ \E sid \in MemoryIds, content \in Contents : AddUserMessage(sid, content)
    \/ \E sid \in MemoryIds, tool_name \in ToolNames, result \in ToolResults :
           AddToolResult(sid, tool_name, result)
    \/ \E sid \in MemoryIds : SetState(sid, "energy_level", Str("HIGH"))
    \/ \E sid \in SessionIds : ClearHistory(sid)

ClearSpec == SessionInit /\ [][ClearNext]_vars

----------------------------------------------------------------------------
(***************************************************************************)
(* The admin agent and the profile tool as functions of the query: the     *)
(* query is drawn at the start and the function is applied to it.          *)
(***************************************************************************)
\* the queries of up to n of the given phrases, separated by spaces
RECURSIVE PhrasesJoined(_, _)
PhrasesJoined(phrases, n) ==
    IF n = 0 THEN {""}
    ELSE IF n = 1 THEN phrases
    ELSE PhrasesJoined(phrases, n - 1)
         \cup {q \o " " \o p : q \in PhrasesJoined(phrases, n - 1), p \in phrases}

AdminPhrases == {
    "Draft an email", "about my insurance renewal", "What renewals are coming up?",
    "Create a calendar event for DMV on Dec 10", "Help me", "DEADLINE",
    "write", "my passport expires", "schedule", "bills overdue" }

AdminQueries == {""} \cup PhrasesJoined(AdminPhrases, MaxPhrases)

ProfilePhrases == {
    "license number", "passport", "insurance", "my address", "Phone",
    "email", "emergency contact", "social security full number",
    "DRIVER'S LICENSE", "xyzzy" }

ProfileQueries == {""} \cup PhrasesJoined(ProfilePhrases, MaxPhrases)

ProductivityPhrases == {
    "I'm tired today, what should I work on?", "Help me prioritize my tasks",
    "Plan my day", "low energy", "EXHAUSTED", "feeling lazy", "motivated",
    "feeling slow", "I need to focus", "on my daily schedule" }

ProductivityQueries == {""} \cup PhrasesJoined(ProductivityPhrases, MaxPhrases)

\* the contexts given to ProductivityAgent.process: none, the one of
\* process_query, and ones with an energy_level or a task_list
Contexts == {
    None,
    SessionContext,
    Dict(<<Item("energy_level", Str("HIGH"))>>),
    Dict(<<Item("energy_level", Str("MEDIUM")),
           Item("task_list", Str("pay rent, call the dentist"))>>),
    Dict(<<Item("task_list", Str("renew passport"))>>) }

\* the clock readings, in seconds, at which the agent is asked: before and
\* after ten o'clock
AskedAt == {0, 60}

AgentsInit ==
    /\ now = 0
    /\ sessions = <<>>
    /\ quadrants = [q \in {QuadrantNames[i] : i \in 1..Len(QuadrantNames)} |-> <<>>]
    /\ client = FALSE
    /\ categorized = 0
    /\ call \in {[op |-> "admin_query", query |-> q] : q \in AdminQueries}
              \cup {[op |-> "profile_query", query |-> q] : q \in ProfileQueries}
              \cup {[op |-> "productivity_query", query |-> q, context |-> c] :
                        q \in ProductivityQueries, c \in Contexts}

\* admin_agent.process(call.query)
AdminProcess ==
    /\ call.op = "admin_query"
    /\ call' = [op |-> "AdminAgent.process", query |-> call.query,
                result |-> AdminAgent_process(call.query)]
    /\ UNCHANGED <<now, sessions, quadrants, client, categorized>>

\* get_profile_info(call.query)
GetProfileInfo ==
    /\ call.op = "profile_query"
    /\ call' = [op |-> "get_profile_info", query |-> call.query,
                result |-> get_profile_info(call.query)]
    /\ UNCHANGED <<now, sessions, quadrants, client, categorized>>

\* productivity_agent.process(call.query, call.context) when the clock reads t
ProductivityProcess(t) ==
    /\ call.op = "productivity_query"
    /\ call' = [op |-> "ProductivityAgent.process", query |-> call.query,
                context |-> call.context, at |-> t,
                result |-> ProductivityAgent_process(call.query, call.context, t)]
    /\ UNCHANGED <<now, sessions, quadrants, client, categorized>>

AgentsNext ==
    \/ AdminProcess
    \/ GetProfileInfo
    \/ \E t \in AskedAt : ProductivityProcess(t)

AgentsSpec == AgentsInit /\ [][AgentsNext]_vars

----------------------------------------------------------------------------
(***************************************************************************)
(* main.py: interactive_mode.  While the loop runs, call is the frame of   *)
(* interactive_mode: its local session_id, whether the loop still runs,    *)
(* what the last pass of the loop read and did, what process_query last    *)
(* returned, and counts of the passes and of the process_query calls that  *)
(* have returned.  Time passes while input() waits at the prompt;          *)
(* process_query, whose own failures are handled inside it, reads the      *)
(* clock once.                                                             *)
(***************************************************************************)
MaxTurns == 3

\* LifeAdminConcierge.get_system_status at time t
get_system_status(store, has_client, t) ==
    [status |-> "operational",
     gemini_connected |-> has_client,
     model |-> "gemini-2.0-flash",
     sessions |-> get_stats(store, t),
     agents |-> [router |-> "active", admin_agent |-> "active",
                 productivity_agent |-> "active"],
     observability |-> TRUE]

\* the lines typed at the prompt
Lines == {"", "  ", "quit", " QuIt\t", "status", "STATUS ", " my phone",
          "Hello there"}

\* what input() raises instead of returning a line
EOFError == Raise("EOFError", "EOF when reading a line")
KeyboardInterrupt == Raise("KeyboardInterrupt", "")

\* the mutant of user_input: the line is taken as typed
user_input_as_typed(line) == line

\* input(...).strip()
user_input(line) == Strip(line)

\* the time input() may wait at the prompt
Waits == {Minutes(m) : m \in 0..MaxMinutes}

\* the loop is at the prompt; d is how long input() will wait
Prompted(d) ==
    /\ call.op = "interactive_mode"
    /\ call.running
    /\ call.turns < MaxTurns
    /\ d \in Waits
    /\ now + d <= Minutes(MaxMinutes)

\* the frame after a pass of the loop that called nothing of the concierge
Passed(read, outcome, running, shown) ==
    [call EXCEPT !.turns = @ + 1, !.input = read, !.outcome = outcome,
                 !.running = running, !.passed = NoId, !.shown = shown]

\* what the display of a response prints first
Displayed(response) ==
    IF Has(response, "response") THEN Get(response, "response", None)
    ELSE IF Has(response, "message") THEN Get(response, "message", None)
    ELSE response

\* interactive_mode() up to the loop: the concierge is built, session_id = None
StartInteractive ==
    /\ call.op = "init"
    /\ call' = [op |-> "interactive_mode", running |-> TRUE, session_id |-> NoId,
                turns |-> 0, queries |-> 0, unexpired |-> TRUE,
                input |-> None, outcome |-> "started", passed |-> NoId,
                result |-> None, shown |-> None]
    /\ UNCHANGED <<now, sessions, quadrants, client, categorized>>

\* input() raises EOFError: except Exception reports it, the loop goes on
InputEOF ==
    \E d \in Waits :
        /\ Prompted(d)
        /\ now' = now + d
        /\ call' = Passed(EOFError, "reported", TRUE, Str("Error: " \o EOFError.msg))
        /\ UNCHANGED <<sessions, quadrants, client, categorized>>

\* Ctrl-C at the prompt: except KeyboardInterrupt says goodbye and breaks
InputInterrupt ==
    \E d \in Waits :
        /\ Prompted(d)
        /\ now' = now + d
        /\ call' = Passed(KeyboardInterrupt, "goodbye", FALSE, Str("Goodbye!"))
        /\ UNCHANGED <<sessions, quadrants, client, categorized>>

\* a line that strips to nothing: continue
EnterEmpty(line) ==
    \E d \in Waits :
        /\ Prompted(d)
        /\ user_input(line) = ""
        /\ now' = now + d
        /\ call' = Passed(Return(Str(line)), "skipped", TRUE, None)
        /\ UNCHANGED <<sessions, quadrants, client, categorized>>

\* quit: break
EnterQuit(line) ==
    \E d \in Waits :
        /\ Prompted(d)
        /\ user_input(line) # ""
        /\ Lower(user_input(line)) = "quit"
        /\ now' = now + d
        /\ call' = Passed(Return(Str(line)), "quit", FALSE,
                          Str("Goodbye! Stay organized!"))
        /\ UNCHANGED <<sessions, quadrants, client, categorized>>

\* status: the system status is printed, continue
EnterStatus(line) ==
    \E d \in Waits :
        /\ Prompted(d)
        /\ user_input(line) # ""
        /\ Lower(user_input(line)) # "quit"
        /\ Lower(user_input(line)) = "status"
        /\ now' = now + d
        /\ call' = Passed(Return(Str(line)), "status", TRUE,
                          get_system_status(sessions, client, now + d))
        /\ UNCHANGED <<sessions, quadrants, client, categorized>>

\* any other line: process_query(user_input, session_id), session_id is set
\* from the result and the response is displayed
EnterQuery(line) ==
    \E d \in Waits :
        /\ Prompted(d)
        /\ user_input(line) # ""
        /\ Lower(user_input(line)) \notin {"quit", "status"}
        /\ \E query \in {user_input(line)} :
           \E routing \in {route(query)} :
           \E generated \in (IF client THEN Generated ELSE {None}),
              fresh \in FreshIds(call.session_id) :
           \E handled \in {Handle(routing.routed_to, query, now + d)} :
           \E result \in {IF client /\ Truthy(handled.result)
                          THEN _enhance_with_llm(handled.result, generated)
                          ELSE handled.result} :
           \E done \in {process_query(sessions, query, call.session_id, routing,
                                      result, fresh, now + d, now + d)} :
               /\ sessions' = done.sessions
               /\ now' = now + d
               /\ call' = [call EXCEPT
                              !.turns = @ + 1,
                              !.input = Return(Str(line)),
                              !.outcome = "answered",
                              !.passed = call.session_id,
                              !.session_id = done.result.session_id,
                              !.queries = @ + 1,
                              !.unexpired =
                                  /\ @
                                  /\ call.session_id # NoId =>
                                         /\ call.session_id \in DOMAIN sessions
                                         /\ ~is_expired(sessions[call.session_id],
                                                        now + d),
                              !.result = done.result,
                              !.shown = Displayed(done.result.response)]
               /\ UNCHANGED <<quadrants, client, categorized>>

\* Ctrl-C while process_query waits for its answer, the query already noted
\* in the session: except KeyboardInterrupt says goodbye and breaks
InterruptQuery(line) ==
    \E d \in Waits :
        /\ Prompted(d)
        /\ user_input(line) # ""
        /\ Lower(user_input(line)) \notin {"quit", "status"}
        /\ \E fresh \in FreshIds(call.session_id) :
               LET got == get_or_create_session(sessions, call.session_id, fresh,
                                                now + d, now + d)
                   asked == add_user_message(got.session, Str(user_input(line)),
                                             now + d)
               IN  sessions' = [got.sessions EXCEPT ![asked.session_id] = asked]
        /\ now' = now + d
        /\ call' = [Passed(Return(Str(line)), "goodbye", FALSE, Str("Goodbye!"))
                       EXCEPT !.passed = call.session_id]
        /\ UNCHANGED <<quadrants, client, categorized>>

InteractiveNext ==
    \/ StartInteractive
    \/ InputEOF
    \/ InputInterrupt
    \/ \E line \in Lines : EnterEmpty(line)
    \/ \E line \in Lines : EnterQuit(line)
    \/ \E line \in Lines : EnterStatus(line)
    \/ \E line \in Lines : EnterQuery(line)
    \/ \E line \in Lines : InterruptQuery(line)

\* interactive_mode in demo mode, without a Gemini client
InteractiveSpec == SessionInit /\ [][InteractiveNext]_vars

----------------------------------------------------------------------------
(***************************************************************************)
(* data/eisenhower.py: EisenhowerMatrix.create_time_blocks as a function   *)
(* of the tasks and the start hour, which are drawn at the start           *)
(* (BlocksSpec).  The durations are integers that are not negative.        *)
(***************************************************************************)
MaxBlocks == 3

\* str(n) of an int n >= 0
RECURSIVE Decimal(_)
Decimal(n) ==
    IF n < 10 THEN CharAt(Digits, n + 1)
    ELSE Decimal(n \div 10) \o CharAt(Digits, (n % 10) + 1)

\* f"{n:02d}" of an int n >= 0: at least two digits
Format02d(n) == IF n < 10 THEN "0" \o Decimal(n) ELSE Decimal(n)

\* the for loop of create_time_blocks from task i on: the entries appended
RECURSIVE Schedule(_, _, _, _)
Schedule(tasks, i, current_hour, current_min) ==
    IF i > Len(tasks) THEN <<>>
    ELSE LET duration_min == Get(tasks[i], "duration_min", Integer(30)).value
             advanced == current_min + duration_min
         IN  <<Dict(<<Item("time", Str(Format02d(current_hour) \o ":"
                                           \o Format02d(current_min))),
                      Item("task", Get(tasks[i], "name", Str("Unknown task"))),
                      Item("duration", Str(Decimal(duration_min) \o " min"))>>)>>
                 \o Schedule(tasks, i + 1,
                        IF advanced >= 60
                        THEN current_hour + (advanced \div 60)
                        ELSE current_hour,
                        IF advanced >= 60 THEN advanced % 60 ELSE advanced)

\* EisenhowerMatrix.create_time_blocks(tasks, start_hour)
create_time_blocks(tasks, start_hour) == Schedule(tasks, 1, start_hour, 0)

\* the task dicts the model schedules
TaskDicts == {
    Dict(<<Item("name", Str("Review report")), Item("duration_min", Integer(30))>>),
    Dict(<<Item("name", Str("Call the bank"))>>),
    Dict(<<Item("duration_min", Integer(45))>>),
    Dict(<<Item("name", Str("Stand-up")), Item("duration_min", Integer(0))>>),
    Dict(<<Item("name", Str("Deep work")), Item("duration_min", Integer(90))>>),
    Dict(<<Item("name", Str("Workshop")), Item("duration_min", Integer(480))>>) }

\* the lists of up to n task dicts
RECURSIVE TaskLists(_)
TaskLists(n) ==
    IF n = 0 THEN {<<>>}
    ELSE TaskLists(n - 1)
         \cup {Append(tasks, task) : tasks \in TaskLists(n - 1), task \in TaskDicts}

\* the start hours the model schedules from: the default, and the first and
\* the last hour of the day
StartHours == {9, 0, 23}

BlocksInit ==
    /\ now = 0
    /\ sessions = <<>>
    /\ quadrants = [q \in {QuadrantNames[i] : i \in 1..Len(QuadrantNames)} |-> <<>>]
    /\ client = FALSE
    /\ categorized = 0
    /\ call \in {[op |-> "tasks_to_schedule", tasks |-> tasks, start_hour |-> h] :
                    tasks \in TaskLists(MaxBlocks), h \in StartHours}

\* matrix.create_time_blocks(call.tasks, call.start_hour)
CreateTimeBlocks ==
    /\ call.op = "tasks_to_schedule"
    /\ call' = [op |-> "create_time_blocks", tasks |-> call.tasks,
                start_hour |-> call.start_hour,
                result |-> create_time_blocks(call.tasks, call.start_hour)]
    /\ UNCHANGED <<now, sessions, quadrants, client, categorized>>

BlocksNext == CreateTimeBlocks

BlocksSpec == BlocksInit /\ [][BlocksNext]_vars

----------------------------------------------------------------------------
(***************************************************************************)
(* session/memory.py: add_message statement by statement, called by two    *)
(* callers of one session with nothing to keep them apart (CallersSpec).   *)
(* call holds the frame of each caller: the statement it is at, the        *)
(* message it has built and the message_count it has read; it also counts  *)
(* the calls begun and records whether a call has begun while the other    *)
(* caller was inside add_message.                                          *)
(***************************************************************************)
MaxCalls == 3

Callers == {1, 2}

\* the other caller
Other(c) == CHOOSE o \in Callers : o # c

\* the frame of a caller that is not inside add_message, result what its last
\* call returned
Outside(result) ==
    [pc |-> "outside", message |-> None, message_count |-> None, result |-> result]

\* the message dict of add_message, built from len(self.history) and the
\* clock reading t
message_built(s, role, content, metadata, t) ==
    [id |-> Len(s.history) + 1,
     role |-> role,
     content |-> content,
     timestamp |-> t,
     metadata |-> metadata]

\* self.history.append(message): the session afterwards
message_appended(s, message) == [s EXCEPT !.history = Append(@, message)]

\* self.last_activity = datetime.now(), the clock reading t
activity_stamped(s, t) == [s EXCEPT !.last_activity = t]

\* self.metadata["message_count"] += 1 with the count left as it was
count_kept(s, message_count) == s

\* self.metadata["message_count"] += 1, the second half: the count that was
\* read, plus one, is stored
count_stored(s, message_count) ==
    [s EXCEPT !.metadata.message_count = message_count + 1]

CallersInit ==
    /\ now = 0
    /\ sessions = [sid \in MemoryIds |-> NewSession(sid, 0, TimeoutMinutes)]
    /\ quadrants = [q \in {QuadrantNames[i] : i \in 1..Len(QuadrantNames)} |-> <<>>]
    /\ client = FALSE
    /\ categorized = 0
    /\ call = [op |-> "add_message", calls |-> 0, overlapped |-> FALSE,
               frames |-> [c \in Callers |-> Outside(None)]]

\* caller c enters session.add_user_message(content) and builds the message
BuildMessage(c, sid, content) ==
    /\ call.op = "add_message"
    /\ call.frames[c].pc = "outside"
    /\ call.calls < MaxCalls
    /\ call' = [call EXCEPT
                  !.calls = @ + 1,
                  !.overlapped = @ \/ call.frames[Other(c)].pc # "outside",
                  !.frames[c] =
                      [pc |-> "built", session_id |-> sid,
                       message |-> message_built(sessions[sid], "user", content,
                                                 <<>>, now),
                       message_count |-> None, result |-> None]]
    /\ UNCHANGED <<now, sessions, quadrants, client, categorized>>

\* caller c appends the message it built
AppendMessage(c) ==
    /\ call.op = "add_message"
    /\ call.frames[c].pc = "built"
    /\ sessions' = [sessions EXCEPT ![call.frames[c].session_id] =
                       message_appended(@, call.frames[c].message)]
    /\ call' = [call EXCEPT !.frames[c].pc = "appended"]
    /\ UNCHANGED <<now, quadrants, client, categorized>>

\* caller c sets last_activity
StampActivity(c) ==
    /\ call.op = "add_message"
    /\ call.frames[c].pc = "appended"
    /\ sessions' = [sessions EXCEPT ![call.frames[c].session_id] =
                       activity_stamped(@, now)]
    /\ call' = [call EXCEPT !.frames[c].pc = "stamped"]
    /\ UNCHANGED <<now, quadrants, client, categorized>>

\* caller c reads message_count, the first half of += 1
ReadCount(c) ==
    /\ call.op = "add_message"
    /\ call.frames[c].pc = "stamped"
    /\ call' = [call EXCEPT
                  !.frames[c].pc = "read",
                  !.frames[c].message_count =
                      sessions[call.frames[c].session_id].metadata.message_count]
    /\ UNCHANGED <<now, sessions, quadrants, client, categorized>>

\* caller c stores the count it read, plus one, and returns the message
StoreCount(c) ==
    /\ call.op = "add_message"
    /\ call.frames[c].pc = "read"
    /\ sessions' = [sessions EXCEPT ![call.frames[c].session_id] =
                       count_stored(@, call.frames[c].message_count)]
    /\ call' = [call EXCEPT !.frames[c] = Outside(call.frames[c].message)]
    /\ UNCHANGED <<now, quadrants, client, categorized>>

CallersNext ==
    \/ \E c \in Callers, sid \in MemoryIds, content \in MemoryContents :
           BuildMessage(c, sid, content)
    \/ \E c \in Callers : AppendMessage(c)
    \/ \E c \in Callers : StampActivity(c)
    \/ \E c \in Callers : ReadCount(c)
    \/ \E c \in Callers : StoreCount(c)

CallersSpec == CallersInit /\ [][CallersNext]_vars

----------------------------------------------------------------------------
(***************************************************************************)
(* tools: several calls of the mock tools while the seconds pass           *)
(* (IdentifiersSpec).  call lists the calls made: the tool, the second at  *)
(* which it was called, its arguments and what it returned.                *)
(***************************************************************************)
MaxToolCalls == 2

\* the recipients and subjects of the drafts, and the titles and start times
\* of the events, that are asked for
DraftRequests == Recipients \X Subjects
EventRequests == Titles \X {"2025-12-15T14:00:00", "2025-12-15T10:00:00Z", "not-a-date"}

IdentifiersInit ==
    /\ now = 0
    /\ sessions = <<>>
    /\ quadrants = [q \in {QuadrantNames[i] : i \in 1..Len(QuadrantNames)} |-> <<>>]
    /\ client = FALSE
    /\ categorized = 0
    /\ call = [op |-> "tool_calls", made |-> <<>>]

\* create_gmail_draft(to, subject, "Test body")
DraftMade(to, subject) ==
    /\ call.op = "tool_calls"
    /\ Len(call.made) < MaxToolCalls
    /\ call' = [call EXCEPT !.made = Append(@,
                  [tool |-> "create_gmail_draft", at |-> now,
                   arguments |-> <<to, subject>>,
                   outcome |-> create_gmail_draft(to, subject, "Test body",
                                                  None, None, now)])]
    /\ UNCHANGED <<now, sessions, quadrants, client, categorized>>

\* create_calendar_event(title, start_time)
EventMade(title, start_time) ==
    /\ call.op = "tool_calls"
    /\ Len(call.made) < MaxToolCalls
    /\ call' = [call EXCEPT !.made = Append(@,
                  [tool |-> "create_calendar_event", at |-> now,
                   arguments |-> <<title, start_time>>,
                   outcome |-> create_calendar_event(
                       title, start_time, DefaultDurationHours, "", "",
                       DefaultReminderMinutes, now)])]
    /\ UNCHANGED <<now, sessions, quadrants, client, categorized>>

IdentifiersNext ==
    \/ TickSecond
    \/ \E request \in DraftRequests : DraftMade(request[1], request[2])
    \/ \E request \in EventRequests : EventMade(request[1], request[2])

IdentifiersSpec == IdentifiersInit /\ [][IdentifiersNext]_vars

\* every operation of the model
Next ==
    \/ RouterNext
    \/ MatrixNext
    \/ SessionNext
    \/ ToolsNext
    \/ ConciergeNext
    \/ MemoryNext
    \/ ManagerNext
    \/ ClearNext
    \/ AgentsNext
    \/ InteractiveNext
    \/ BlocksNext
    \/ CallersNext
    \/ IdentifiersNext

Spec == (Init \/ RouterInit \/ ToolsInit \/ AgentsInit \/ BlocksInit \/ CallersInit
            \/ IdentifiersInit)
            /\ [][Next]_vars

----------------------------------------------------------------------------
(***************************************************************************)
(* Claims about the router (RouterSpec).                                   *)
(***************************************************************************)
\* the total length of a set of strings
RECURSIVE TotalLength(_)
TotalLength(S) ==
    IF S = {} THEN 0
    ELSE LET x == CHOOSE y \in S : TRUE IN Len(x) + TotalLength(S \ {x})

\* the keywords of the r-th route that occur in the lowercased query ql
Occurring(r, ql) ==
    {Routes[r].keywords[k] : k \in {j \in 1..Len(Routes[r].keywords) :
                                      Contains(ql, Routes[r].keywords[j])}}

\* the total length of each route's occurring keywords
Weights(q) ==
    LET ql == Lower(q)
    IN  <<TotalLength(Occurring(1, ql)), TotalLength(Occurring(2, ql)),
          TotalLength(Occurring(3, ql))>>

Routed == call.op = "route"

\* C1 as stated: every query whose lowercased text contains "calendar" is
\* routed to admin_agent.
C1_CalendarAlwaysAdmin ==
    (Routed /\ Contains(Lower(call.query), "calendar"))
        => call.result.routed_to = "admin_agent"

\* C1 as amended: a query whose lowercased text contains "calendar" is routed
\* to admin_agent whenever the admin keywords occurring in it weigh at least as
\* much as the occurring keywords of each other route.
C1_CalendarAdminWhenHeaviest ==
    (Routed /\ Contains(Lower(call.query), "calendar")) =>
        LET w == Weights(call.query)
        IN  (\A r \in 2..Len(Routes) : w[1] >= w[r])
                => call.result.routed_to = "admin_agent"

\* a calendar query that also holds keywords of another route, equally heavy,
\* has been routed to admin_agent
C1_Witness ==
    /\ Routed
    /\ Contains(Lower(call.query), "calendar")
    /\ LET w == Weights(call.query)
       IN  \E r \in 2..Len(Routes) : w[r] > 0 /\ w[r] = w[1]
    /\ call.result.routed_to = "admin_agent"

\* C2: a query that expresses tiredness and contains no routing keyword is
\* routed to productivity_agent.
C2_TiredRoutesToProductivity ==
    (/\ Routed
     /\ Contains(Lower(call.query), "tired")
     /\ Weights(call.query) = <<0, 0, 0>>)
        => call.result.routed_to = "productivity_agent"

----------------------------------------------------------------------------
(***************************************************************************)
(* Claims about the Eisenhower matrix (MatrixSpec).                        *)
(***************************************************************************)
\* the quadrant the two booleans stand for
ExpectedQuadrant(urgent, important) ==
    CASE urgent /\ important -> "Q1_do_first"
      [] ~urgent /\ important -> "Q2_schedule"
      [] urgent /\ ~important -> "Q3_delegate"
      [] ~urgent /\ ~important -> "Q4_eliminate"

\* C4: categorize_task returns Q1_do_first for urgent and important,
\* Q2_schedule for important only, Q3_delegate for urgent only and
\* Q4_eliminate otherwise; it appends the task to exactly the returned
\* quadrant and leaves the other three unchanged; get_summary().total_tasks
\* equals the number of categorize_task calls made.
C4_CategorizeTask ==
    /\ [](call.op = "get_summary" => call.result.total_tasks = categorized)
    /\ [][categorized' # categorized =>
            /\ call'.op = "categorize_task"
            /\ call'.result = ExpectedQuadrant(call'.urgent, call'.important)
            /\ \A i \in 1..Len(QuadrantNames) :
                   quadrants'[QuadrantNames[i]] =
                       IF QuadrantNames[i] = call'.result
                       THEN quadrants[QuadrantNames[i]] \o <<call'.task>>
                       ELSE quadrants[QuadrantNames[i]]]_vars

\* an important, not urgent task has been filed under Q2_schedule after other
\* tasks, and get_summary has counted them
C4_Witness ==
    /\ call.op = "get_summary"
    /\ call.result.total_tasks >= 2
    /\ Len(quadrants["Q2_schedule"]) >= 1
    /\ Len(quadrants["Q3_delegate"]) >= 1

----------------------------------------------------------------------------
(***************************************************************************)
(* Claims about the session store (SessionSpec).                           *)
(***************************************************************************)
\* the time at which a session's idle timeout ends
Expiry(session) == session.last_activity + 60 * session.timeout_minutes

\* C5: is_expired() is true exactly when the current time is strictly later
\* than last_activity + timeout_minutes; get_session never returns an expired
\* session; asked for a stored session that has expired, it returns None and
\* removes that session from the store.
C5_SessionExpiry ==
    /\ [](call.op = "is_expired" =>
            (call.result <=> call.at > Expiry(sessions[call.session_id])))
    /\ []((call.op = "get_session" /\ call.result # None) =>
            /\ call.at <= Expiry(call.result)
            /\ call.result.session_id = call.session_id)
    /\ [][\A sid \in DOMAIN sessions :
            (/\ call'.op = "get_session"
             /\ call'.session_id = sid
             /\ now > Expiry(sessions[sid]))
                => (call'.result = None /\ sid \notin DOMAIN sessions')]_vars

\* get_session has been asked for a session idle for longer than its timeout,
\* has returned None and has removed it, while another session stays stored
C5_Witness ==
    /\ call.op = "get_session"
    /\ call.before # None
    /\ call.at > Expiry(call.before)
    /\ call.result = None
    /\ call.session_id \notin DOMAIN sessions
    /\ DOMAIN sessions # {}

----------------------------------------------------------------------------
(***************************************************************************)
(* Claims about the tools (ToolsSpec).                                     *)
(***************************************************************************)

HasAt(to) == \E i \in 1..Len(to) : CharAt(to, i) = "@"

StartsWith(s, prefix) ==
    Len(s) >= Len(prefix) /\ SubSeq(s, 1, Len(prefix)) = prefix

\* C6: create_gmail_draft never raises.  It returns success=False with an
\* error and no draft_id exactly when the recipient address contains no "@";
\* otherwise it returns success=True with status "draft", a draft_id, and
\* to and subject equal to the inputs.
C6_GmailDraft ==
    call.op = "create_gmail_draft" =>
        /\ call.outcome.raised = ""
        /\ LET result == call.outcome.value
           IN  IF ~HasAt(call.to)
               THEN /\ ~result.success
                    /\ "error" \in DOMAIN result
                    /\ "draft_id" \notin DOMAIN result
               ELSE /\ result.success
                    /\ result.status = "draft"
                    /\ "draft_id" \in DOMAIN result
                    /\ result.to = call.to
                    /\ result.subject = call.subject

\* a non-empty recipient without "@" has been refused
C6_Witness ==
    /\ call.op = "create_gmail_draft"
    /\ call.to = "invalid-email"
    /\ ~call.outcome.value.success

\* what create_calendar_event parses
ParsedStart == fromisoformat(Replace(call.start_time, "Z", "+00:00"))

\* the duration of the call, in hours
DurationHours == OrDefault(call.duration_hours, Fraction(1, 1))

\* the call is refused with an error that begins with prefix
Refused(prefix) ==
    /\ ~call.outcome.value.success
    /\ StartsWith(call.outcome.value.error, prefix)
    /\ "event_id" \notin DOMAIN call.outcome.value

\* the event is created: the title is echoed, start is the given start, end
\* is start plus the duration, the reminder is that of the call or 30
EventCreated ==
    LET result == call.outcome.value
        start == fromisoformat(result.start).value
        end == fromisoformat(result.end).value
        seconds == SecondOfDay(start) + (DurationHours.num * 3600) \div DurationHours.den
    IN  /\ result.success
        /\ "event_id" \in DOMAIN result
        /\ result.title = call.title
        /\ start = ParsedStart.value
        /\ end.tz = start.tz
        /\ ToOrdinal(end.year, end.month, end.day)
               = ToOrdinal(start.year, start.month, start.day) + seconds \div 86400
        /\ SecondOfDay(end) = seconds % 86400
        /\ result.reminder =
               ToString(OrDefault(call.reminder_minutes, Integer(30)).value)
                   \o " minutes before"

\* C7 as stated: create_calendar_event never raises; it is refused with
\* "Invalid date format" when start_time is not a parseable ISO date-time,
\* and otherwise the event is created.
C7_CreatedUnlessUnparseable ==
    call.op = "create_calendar_event" =>
        /\ call.outcome.raised = ""
        /\ IF ParsedStart.raised # ""
           THEN Refused("Invalid date format")
           ELSE EventCreated

\* start plus the duration is a datetime of the years 1..9999
EndRepresentable ==
    /\ DurationHours # Infinity
    /\ LET start == ParsedStart.value
           seconds == SecondOfDay(start)
                          + (DurationHours.num * 3600) \div DurationHours.den
       IN  ToOrdinal(start.year, start.month, start.day) + seconds \div 86400
               \in 1..ToOrdinal(9999, 12, 31)

\* C7: create_calendar_event never raises.  It is refused with "Invalid date
\* format" and no event_id when start_time is not a parseable ISO date-time
\* or duration_hours is not a number, and with "Failed to create event" and
\* no event_id when start_time parses but start plus duration_hours is not
\* a representable datetime; otherwise the event is created with an
\* event_id, the title echoed, end = start + duration_hours and the
\* reminder "<reminder_minutes> minutes before" (30 by default).
C7_CalendarEvent ==
    call.op = "create_calendar_event" =>
        /\ call.outcome.raised = ""
        /\ IF ParsedStart.raised # "" \/ DurationHours = NaN
           THEN Refused("Invalid date format")
           ELSE IF ~EndRepresentable
           THEN Refused("Failed to create event")
           ELSE EventCreated

\* a start that parses, with an end beyond the year 9999, has been refused
C7_Witness ==
    /\ call.op = "create_calendar_event"
    /\ call.start_time = "9999-12-31T23:30:00"
    /\ call.duration_hours = Unset
    /\ ParsedStart.raised = ""
    /\ ~call.outcome.value.success

----------------------------------------------------------------------------
(***************************************************************************)
(* Claims about LifeAdminConcierge.process_query (ConciergeSpec).          *)
(***************************************************************************)

ProcessedQuery == call.op = "process_query"

\* the messages of the session process_query names
ReturnedHistory == sessions[call.result.session_id].history

\* C8: process_query returns a dictionary with the keys query, response,
\* routing, session_id and timestamp; query is the input, routing.routed_to
\* is the route the router chooses for it, and session_id names a session
\* of the store whose history holds the query as a user message.
C8_ProcessQueryResult ==
    ProcessedQuery =>
        /\ DOMAIN call.result =
               {"query", "response", "routing", "session_id", "timestamp"}
        /\ call.result.query = call.query
        /\ call.result.routing.routed_to = route(call.query).routed_to
        /\ call.result.session_id \in DOMAIN sessions
        /\ \E i \in 1..Len(ReturnedHistory) :
               /\ ReturnedHistory[i].role = "user"
               /\ ReturnedHistory[i].content = Str(call.query)

\* a query has been processed under the identifier of a session that had
\* expired: the session was made anew
C8_Witness ==
    /\ ProcessedQuery
    /\ call.session_id = "s1"
    /\ call.before # None
    /\ call.at > Expiry(call.before)
    /\ call.result.session_id = "s1"

Handlers ==
    {"AdminAgent.process", "ProductivityAgent.process", "get_profile_info",
     "_handle_general_query"}

ExpectedHandler(routed_to) ==
    CASE routed_to = "admin_agent" -> "AdminAgent.process"
      [] routed_to = "productivity_agent" -> "ProductivityAgent.process"
      [] routed_to = "profile_agent" -> "get_profile_info"
      [] OTHER -> "_handle_general_query"

\* the positions of process_query's trace at which it calls one of names
Steps(names) == {i \in 1..Len(call.trace) : call.trace[i] \in names}

\* C9: process_query invokes exactly one handler, the one routing.routed_to
\* selects; _enhance_with_llm runs, after the handler, if and only if there
\* is a Gemini client; without a client the response is the handler's
\* result, unmodified.
C9_OneHandlerThenLLM ==
    ProcessedQuery =>
        /\ Cardinality(Steps(Handlers)) = 1
        /\ Steps(Handlers) =
               Steps({ExpectedHandler(call.result.routing.routed_to)})
        /\ (Steps({"_enhance_with_llm"}) # {}) <=> client
        /\ \A h \in Steps(Handlers), e \in Steps({"_enhance_with_llm"}) : h < e
        /\ ~client => call.result.response = call.handled

\* with a client, a profile query has been handled and then enhanced
C9_Witness ==
    /\ ProcessedQuery
    /\ client
    /\ call.result.routing.routed_to = "profile_agent"
    /\ Steps({"get_profile_info"}) # {}
    /\ Steps({"_enhance_with_llm"}) # {}

\* C10: with a client the model is called at most once per query.  When the
\* call fails, process_query still returns, the result has
\* llm_enhanced=False and a response that is a string, and the assistant
\* message is recorded; when it succeeds, llm_enhanced=True and the
\* response is the model's text.
C10_LLMFailure ==
    (ProcessedQuery /\ client) =>
        LET response == call.result.response
            last == ReturnedHistory[Len(ReturnedHistory)]
        IN  /\ Cardinality(Steps({"generate_content"})) <= 1
            /\ DOMAIN call.result =
                   {"query", "response", "routing", "session_id", "timestamp"}
            /\ last.role = "assistant"
            /\ last.content = Get(response, "response", None)
            /\ IF call.generated.raised # ""
               THEN /\ Get(response, "llm_enhanced", None) = Bool(FALSE)
                    /\ Get(response, "response", None).type = "str"
               ELSE /\ Get(response, "llm_enhanced", None) = Bool(TRUE)
                    /\ Get(response, "response", None) = call.generated.value

\* the model call has failed and the query was answered all the same
C10_Witness ==
    /\ ProcessedQuery
    /\ client
    /\ call.generated.raised # ""
    /\ Steps({"generate_content"}) # {}
    /\ Get(call.result.response, "llm_enhanced", None) = Bool(FALSE)

----------------------------------------------------------------------------
(***************************************************************************)
(* Claims about the conversation and the state of a session (MemorySpec).  *)
(***************************************************************************)
\* the keys a session state may hold
KnownKeys == StateKeys \cup UNION {DOMAIN updates : updates \in StateUpdates}

\* what the last operation has stored under key k of session sid, if anything
StoresUnder(op, sid, k) ==
    \/ op.op = "set_state" /\ op.session_id = sid /\ op.key = k
    \/ op.op = "update_state" /\ op.session_id = sid /\ k \in DOMAIN op.updates

\* C11: after any sequence of add_message, add_user_message,
\* add_assistant_message, add_tool_result, set_state, update_state and
\* clear_history calls on a session, metadata.message_count equals
\* len(history), get_history() returns all stored messages, the i-th message
\* has id i, and get_state(k) returns the value most recently stored under k:
\* a set_state or update_state stores its value under its keys, and no other
\* call changes what is stored under a key.
C11_SessionBookkeeping ==
    /\ [](\A sid \in DOMAIN sessions :
            /\ sessions[sid].metadata.message_count = Len(sessions[sid].history)
            /\ \A i \in 1..Len(sessions[sid].history) :
                   sessions[sid].history[i].id = i)
    /\ []((call.op = "get_history" /\ call.last_n = None) =>
            call.result = sessions[call.session_id].history)
    /\ [](call.op = "get_state" =>
            call.result = get_state(sessions[call.session_id], call.key, None))
    /\ [][\A sid \in DOMAIN sessions \cap DOMAIN sessions', k \in KnownKeys :
            get_state(sessions'[sid], k, None) =
                IF call'.op = "set_state" /\ StoresUnder(call', sid, k)
                THEN call'.value
                ELSE IF call'.op = "update_state" /\ StoresUnder(call', sid, k)
                THEN call'.updates[k]
                ELSE IF call'.op = "create_session" /\ call'.result.session_id = sid
                THEN None
                ELSE get_state(sessions[sid], k, None)]_vars

\* get_state returns HIGH, stored by set_state after an update_state had
\* stored LOW, in a session whose history is full and holds a tool result
C11_Witness ==
    /\ call.op = "get_state"
    /\ call.result = Str("HIGH")
    /\ "mode" \in DOMAIN sessions[call.session_id].state
    /\ Len(sessions[call.session_id].history) = MaxMessages
    /\ sessions[call.session_id].metadata.message_count = MaxMessages
    /\ \E i \in 1..MaxMessages :
           sessions[call.session_id].history[i].role = "tool"

----------------------------------------------------------------------------
(***************************************************************************)
(* Claims about the session manager (ManagerSpec).                         *)
(***************************************************************************)
\* get_or_create_session was given the id of a session that was stored and
\* not expired when the call read the clock
GivenLiveSession ==
    /\ call.op = "get_or_create_session"
    /\ call.before # None
    /\ call.at <= Expiry(call.before)

\* C12: get_or_create_session, given the id of a stored, unexpired session,
\* returns that same session with its history and state intact; in every
\* other case it returns a new session with empty history that is stored in
\* the manager; and whenever a non-empty id is passed, the returned session
\* has exactly that id.
C12_GetOrCreateSession ==
    call.op = "get_or_create_session" =>
        /\ GivenLiveSession =>
               /\ call.result = call.before
               /\ sessions[call.session_id] = call.before
        /\ ~GivenLiveSession =>
               /\ call.result.history = <<>>
               /\ call.result.metadata.message_count = 0
               /\ DOMAIN call.result.state = {}
               /\ call.result.created_at = now
               /\ call.result.session_id \in DOMAIN sessions
               /\ sessions[call.result.session_id] = call.result
        /\ call.session_id # NoId =>
               call.result.session_id = call.session_id

\* get_or_create_session has returned a stored session with a message and a
\* state value, some time after its last activity
C12_Witness ==
    /\ GivenLiveSession
    /\ call.result.history # <<>>
    /\ "energy_level" \in DOMAIN call.result.state
    /\ call.at > call.result.last_activity
    /\ call.result.session_id = call.session_id

\* get_or_create_session has been given the id of an expired session that
\* had a message, and has stored a new one under that id
C12_ExpiredRenewed ==
    /\ call.op = "get_or_create_session"
    /\ call.before # None
    /\ call.at > Expiry(call.before)
    /\ call.before.history # <<>>
    /\ sessions[call.session_id].history = <<>>

\* the stored sessions of a store that are expired at time t
ExpiredIn(store, t) == {sid \in DOMAIN store : t > Expiry(store[sid])}

\* C13: cleanup_expired removes all expired sessions and only those: after
\* it returns no stored session is expired, every session that was unexpired
\* is still stored and unchanged, and the returned number equals the number
\* of sessions removed, so that total_sessions equals active_sessions
\* immediately afterwards.
C13_CleanupExpired ==
    call.op = "cleanup_expired" =>
        /\ ExpiredIn(sessions, now) = {}
        /\ DOMAIN sessions = DOMAIN call.before \ ExpiredIn(call.before, call.at)
        /\ \A sid \in DOMAIN sessions : sessions[sid] = call.before[sid]
        /\ call.result = Cardinality(DOMAIN call.before \ DOMAIN sessions)
        /\ get_stats(sessions, now).total_sessions
               = get_stats(sessions, now).active_sessions

\* cleanup_expired has removed one expired session and has kept another that
\* has been idle for exactly its timeout
C13_Witness ==
    /\ call.op = "cleanup_expired"
    /\ call.result = 1
    /\ \E sid \in DOMAIN sessions : now = Expiry(sessions[sid])

----------------------------------------------------------------------------
(***************************************************************************)
(* Claims about clearing a conversation (ClearSpec).                       *)
(***************************************************************************)
\* the calls that add a message to a session
AddOps == {"add_message", "add_user_message", "add_assistant_message",
           "add_tool_result"}

\* C16: clear_history clears the conversation but keeps the session:
\* afterwards history is empty and message_count is 0, while session_id,
\* state, tools_used, agents_invoked, last_activity and the session's entry
\* in the SessionManager are unchanged (and so is every other session); the
\* next added message gets id 1.
C16_ClearHistory ==
    /\ [](call.op = "clear_history" =>
            /\ call.session_id \in DOMAIN sessions
            /\ sessions[call.session_id].history = <<>>
            /\ sessions[call.session_id].metadata.message_count = 0
            /\ sessions[call.session_id] =
                   [call.before EXCEPT !.history = <<>>,
                                       !.metadata.message_count = 0])
    /\ [][call'.op = "clear_history" =>
            /\ DOMAIN sessions' = DOMAIN sessions
            /\ \A sid \in DOMAIN sessions \ {call'.session_id} :
                   sessions'[sid] = sessions[sid]]_vars
    /\ [][(/\ call.op = "clear_history"
           /\ call'.op \in AddOps
           /\ call'.session_id = call.session_id)
              => (/\ call'.result.id = 1
                  /\ sessions'[call.session_id].history = <<call'.result>>)]_vars

\* a full conversation with a tool result and a state value has been cleared
\* some time after its last activity, while another session is stored, and
\* its tools_used and state are still there
C16_Witness ==
    /\ call.op = "clear_history"
    /\ Len(call.before.history) = MaxMessages
    /\ now > call.before.last_activity
    /\ sessions[call.session_id].metadata.tools_used # <<>>
    /\ DOMAIN sessions[call.session_id].state # {}
    /\ DOMAIN sessions # {call.session_id}

----------------------------------------------------------------------------
(***************************************************************************)
(* Claims about reading a conversation (MemorySpec).                       *)
(***************************************************************************)
\* the history of the session the last call was made on
History == sessions[call.session_id].history

\* the last n messages of a history
Last(history, n) == SubSeq(history, Len(history) - n + 1, Len(history))

\* C14: get_history(last_n=N) returns only the last N messages: for every
\* N >= 0 the result has min(N, len(history)) messages and is the tail of
\* the history in original order; when last_n is omitted the whole history
\* is returned.
C14_LastN ==
    call.op = "get_history" =>
        IF call.last_n = None
        THEN call.result = History
        ELSE call.last_n.value >= 0 =>
                 /\ Len(call.result) =
                        (IF call.last_n.value <= Len(History)
                         THEN call.last_n.value ELSE Len(History))
                 /\ call.result = Last(History, Len(call.result))

\* the sum of the content lengths of some messages
RECURSIVE Chars(_)
Chars(messages) ==
    IF messages = <<>> THEN 0
    ELSE Len(Head(messages).content.value) + Chars(Tail(messages))

\* C15: get_context_window(max_tokens) returns messages that fit within the
\* budget: the result is a contiguous suffix of the history in original
\* order, the sum of its content lengths is at most 4*max_tokens, and it is
\* the longest such suffix.
C15_ContextWindow ==
    call.op = "get_context_window" =>
        /\ Len(call.result) <= Len(History)
        /\ call.result = Last(History, Len(call.result))
        /\ Chars(call.result) <= 4 * call.max_tokens
        /\ Len(call.result) < Len(History) =>
               Chars(Last(History, Len(call.result) + 1)) > 4 * call.max_tokens

\* get_context_window has returned some messages and has left out older
\* ones, one of which would have fitted by itself
C15_Witness ==
    /\ call.op = "get_context_window"
    /\ call.result # <<>>
    /\ Len(call.result) < Len(History)
    /\ \E i \in 1..Len(History) - Len(call.result) :
           Chars(call.result) + Len(History[i].content.value)
               <= 4 * call.max_tokens

----------------------------------------------------------------------------
(***************************************************************************)
(* Claims about the admin agent and the profile tool (AgentsSpec).         *)
(***************************************************************************)
CalendarWords == {"calendar", "event", "appointment", "schedule"}
EmailWords == {"email", "draft", "mail", "write"}
RenewalWords == {"renewal", "renew", "expir", "deadline", "due"}

\* the lowercased query contains one of the words
Mentions(query, words) == \E w \in words : Contains(Lower(query), w)

\* the action of the answer of AdminAgent.process
Action == Get(call.result, "action", None)

\* C17: AdminAgent.process picks its action by fixed precedence calendar >
\* email > renewal > general: a query with an email keyword and a renewal
\* keyword but no calendar keyword yields email_suggestion and not
\* renewal_status; a query with only renewal keywords yields renewal_status.
C17_AdminPrecedence ==
    call.op = "AdminAgent.process" =>
        Action = IF Mentions(call.query, CalendarWords)
                 THEN Str("calendar_suggestion")
                 ELSE IF Mentions(call.query, EmailWords)
                 THEN Str("email_suggestion")
                 ELSE IF Mentions(call.query, RenewalWords)
                 THEN Str("renewal_status")
                 ELSE Str("general_help")

\* "Draft an email about my insurance renewal" has been answered with
\* email_suggestion
C17_Witness ==
    /\ call.op = "AdminAgent.process"
    /\ call.query = "Draft an email about my insurance renewal"
    /\ Mentions(call.query, EmailWords)
    /\ Mentions(call.query, RenewalWords)
    /\ ~Mentions(call.query, CalendarWords)
    /\ Action = Str("email_suggestion")

\* "What renewals are coming up?" has been answered with renewal_status
C17_RenewalOnly ==
    /\ call.op = "AdminAgent.process"
    /\ call.query = "What renewals are coming up?"
    /\ Action = Str("renewal_status")

\* the keys of get_profile_info in their order, and their descriptions
ProfileKeys == <<"license", "passport", "insurance", "address", "phone",
                 "email", "emergency">>
Descriptions == <<"Driver's License", "Passport", "Auto Insurance",
                  "Home Address", "Phone Number", "Email Address",
                  "Emergency Contact">>

\* the positions of the keys that the lowercased query contains
KeysIn(query) ==
    {i \in 1..Len(ProfileKeys) : Contains(Lower(query), ProfileKeys[i])}

\* C18: get_profile_info always returns a dictionary containing found,
\* query, info and context; when the lowercased query contains one of the
\* keys license, passport, insurance, address, phone, email, emergency, only
\* the first such key in that order is used and the result has found=True
\* with type equal to that key's description ("license number" gives type
\* "Driver's License" and info "D99887766"); the free-text line search is
\* used only when no key matched.
C18_ProfileInfo ==
    call.op = "get_profile_info" =>
        /\ call.result.type = "dict"
        /\ \A key \in {"found", "query", "info", "context"} : Has(call.result, key)
        /\ Get(call.result, "query", None) = Str(call.query)
        /\ KeysIn(call.query) # {} =>
               LET first == CHOOSE i \in KeysIn(call.query) :
                                \A j \in KeysIn(call.query) : i <= j
               IN  /\ Get(call.result, "found", None) = Bool(TRUE)
                   /\ Get(call.result, "type", None) = Str(Descriptions[first])
                   /\ first = 1 => Get(call.result, "info", None) = Str("D99887766")
        /\ Get(call.result, "type", None) = Str("General Search") =>
               KeysIn(call.query) = {}
        /\ call.query = "license number" =>
               /\ Get(call.result, "type", None) = Str("Driver's License")
               /\ Get(call.result, "info", None) = Str("D99887766")

\* a query that names the passport before the license has been answered
\* with the driver's license
C18_Witness ==
    /\ call.op = "get_profile_info"
    /\ call.query = "passport license number"
    /\ KeysIn(call.query) = {1, 2}
    /\ Get(call.result, "found", None) = Bool(TRUE)
    /\ Get(call.result, "type", None) = Str("Driver's License")
    /\ Get(call.result, "info", None) = Str("D99887766")

\* a query without a key has been answered by the search of the profile lines
C18_GeneralSearch ==
    /\ call.op = "get_profile_info"
    /\ KeysIn(call.query) = {}
    /\ Get(call.result, "type", None) = Str("General Search")

\* a query that matches nothing has been answered with found False
C18_NotFound ==
    /\ call.op = "get_profile_info"
    /\ Get(call.result, "found", None) = Bool(FALSE)
    /\ ~Has(call.result, "type")

----------------------------------------------------------------------------
(***************************************************************************)
(* Claims about interactive_mode (InteractiveSpec).                        *)
(***************************************************************************)
\* a step that is one pass of the loop of interactive_mode
LoopPass ==
    /\ call.op = "interactive_mode"
    /\ call'.op = "interactive_mode"
    /\ call'.turns = call.turns + 1

\* the pass read a line, and the line without its surrounding whitespace
\* and in lower case is one of the words
Entered(frame, words) ==
    /\ frame.input # None
    /\ frame.input.raised = ""
    /\ Lower(Strip(frame.input.value.value)) \in words

\* the pass was interrupted by an exception of the class Exception
RaisedException(frame) ==
    /\ frame.input # None
    /\ frame.input.raised \notin {"", "KeyboardInterrupt"}

\* no process_query call was made in the step: nothing was returned and no
\* session was made or touched
NoQuery == call'.queries = call.queries /\ sessions' = sessions

\* C19: entering "quit" (in any letter case, surrounding whitespace ignored)
\* ends the loop without calling process_query for that input; empty input
\* and "status" never call process_query; an exception raised while handling
\* one input is reported and the loop continues with the next input rather
\* than terminating.
C19_InteractiveLoop ==
    /\ [][LoopPass =>
            /\ Entered(call', {"quit"}) => (~call'.running /\ NoQuery)
            /\ Entered(call', {"", "status"}) => (call'.running /\ NoQuery)
            /\ RaisedException(call') =>
                   /\ call'.running
                   /\ call'.outcome = "reported"
                   /\ call'.shown = Str("Error: " \o call'.input.msg)]_vars
    /\ []((call.op = "interactive_mode" /\ ~call.running) =>
            \/ Entered(call, {"quit"})
            \/ call.outcome = "goodbye")

\* after an answered query, an exception at the prompt has been reported and
\* the loop still runs
C19_Witness ==
    /\ call.op = "interactive_mode"
    /\ RaisedException(call)
    /\ call.outcome = "reported"
    /\ call.running
    /\ call.queries >= 1

\* "quit" with capitals and whitespace around it has ended the loop after an
\* answered query
C19_QuitAnyCase ==
    /\ call.op = "interactive_mode"
    /\ call.input = Return(Str(" QuIt\t"))
    /\ ~call.running
    /\ call.queries >= 1

\* "status" in capitals has shown the status of a concierge with a session
C19_Status ==
    /\ call.op = "interactive_mode"
    /\ call.input = Return(Str("STATUS "))
    /\ call.outcome = "status"
    /\ call.shown.sessions.total_sessions = 1

\* a pass of the loop in which process_query was called and has returned
Answering == LoopPass /\ call'.outcome = "answered"

\* the session named by the latest result, and its history
Maintained == sessions[call.result.session_id]
Conversation == Maintained.history

\* C20: interactive_mode maintains one session: every process_query call
\* after the first is made with the session_id returned by the previous
\* call, all responses of one run carry the same session_id, and as long as
\* the session has not expired between queries its history has exactly 2k
\* messages after the k-th query.
C20_OneSession ==
    /\ [][(Answering /\ call.queries >= 1) =>
            /\ call'.passed = call.result.session_id
            /\ call'.result.session_id = call.result.session_id
            /\ now' <= Expiry(Maintained) =>
                   Len(Conversation') = Len(Conversation) + 2]_vars
    /\ [][(Answering /\ call.queries = 0) =>
            (call'.passed = NoId /\ Len(Conversation') = 2)]_vars
    /\ []((/\ call.op = "interactive_mode"
           /\ call.outcome = "answered"
           /\ call.unexpired)
              => Len(Conversation) = 2 * call.queries)

\* the third query of a run has been answered some time after the first,
\* in the session of the first, which never expired
C20_Witness ==
    /\ call.op = "interactive_mode"
    /\ call.outcome = "answered"
    /\ call.queries = 3
    /\ call.unexpired
    /\ call.passed = call.result.session_id
    /\ Len(Conversation) = 6
    /\ Conversation[6].timestamp > Conversation[1].timestamp

\* a query has been answered after the session of the first had expired: the
\* response carries the same session_id and the history starts again
C20_Renewed ==
    /\ call.op = "interactive_mode"
    /\ call.outcome = "answered"
    /\ call.queries = 2
    /\ ~call.unexpired
    /\ call.passed = call.result.session_id
    /\ Len(Conversation) = 2

----------------------------------------------------------------------------
(***************************************************************************)
(* Claims about the productivity agent (AgentsSpec).                       *)
(***************************************************************************)
PrioritizationWords == {"prioritize", "priority", "eisenhower", "important"}
SchedulingWords == {"schedule", "time block", "plan", "daily"}
LowEnergyWords == {"tired", "low energy", "exhausted", "lazy"}
HighEnergyWords == {"productive", "focus", "motivated", "energetic"}

\* the energy level in the answer of ProductivityAgent.process
EnergyLevel == Get(call.result, "energy_level", Unset)

\* C21: for a query with a low-energy word (tired, low energy, exhausted,
\* lazy) and no prioritization or scheduling keyword, ProductivityAgent.process
\* answers low_energy_mode with energy level LOW; with a prioritization or
\* scheduling keyword as well, that handler wins (precedence prioritize >
\* schedule > low energy > high energy > general) and is given the energy
\* level LOW, whatever energy_level the context has.
C21_LowEnergy ==
    call.op = "ProductivityAgent.process" =>
        /\ Action \in
             IF Mentions(call.query, PrioritizationWords)
             THEN {Str("request_tasks"), Str("prioritize")}
             ELSE IF Mentions(call.query, SchedulingWords)
             THEN {Str("schedule")}
             ELSE IF Mentions(call.query, LowEnergyWords)
             THEN {Str("low_energy_mode")}
             ELSE IF Mentions(call.query, HighEnergyWords)
             THEN {Str("high_energy_mode")}
             ELSE {Str("general_help")}
        /\ Mentions(call.query, LowEnergyWords) => EnergyLevel = Str("LOW")

\* a tired request to prioritize, made with a context whose energy_level is
\* HIGH, has gone to the prioritization handler with the energy level LOW
C21_Witness ==
    /\ call.op = "ProductivityAgent.process"
    /\ call.query = "I'm tired today, what should I work on? Help me prioritize my tasks"
    /\ Mentions(call.query, LowEnergyWords)
    /\ call.context # None
    /\ Get(call.context, "energy_level", Unset) = Str("HIGH")
    /\ Action = Str("request_tasks")
    /\ EnergyLevel = Str("LOW")

\* "I'm tired today, what should I work on?" has been answered with
\* low_energy_mode and the energy level LOW
C21_TiredOnly ==
    /\ call.op = "ProductivityAgent.process"
    /\ call.query = "I'm tired today, what should I work on?"
    /\ Action = Str("low_energy_mode")
    /\ EnergyLevel = Str("LOW")

\* a low-energy request for a schedule has gone to the scheduling handler
\* with the energy level LOW although the context says MEDIUM
C21_Scheduled ==
    /\ call.op = "ProductivityAgent.process"
    /\ Mentions(call.query, LowEnergyWords)
    /\ ~Mentions(call.query, PrioritizationWords)
    /\ call.context # None
    /\ Get(call.context, "energy_level", Unset) = Str("MEDIUM")
    /\ Action = Str("schedule")
    /\ EnergyLevel = Str("LOW")


----------------------------------------------------------------------------
(***************************************************************************)
(* Claims about the tasks recommended for an energy level (MatrixSpec).    *)
(***************************************************************************)
\* the tasks of two quadrants, the first quadrant's before the second's
Both(first, second) == quadrants[first] \o quadrants[second]

\* C22: get_energy_adjusted_tasks returns, whatever the case of the letters of
\* the energy level, the Q3 tasks followed by the Q4 tasks for LOW, Q2
\* followed by Q3 for MEDIUM and Q1 followed by Q2 for HIGH, each in insertion
\* order; any other level gives what HIGH gives; no quadrant is modified.
C22_EnergyAdjusted ==
    /\ [](call.op = "get_energy_adjusted_tasks" =>
            call.result =
                CASE Lower(call.energy_level) = "low" ->
                         Both("Q3_delegate", "Q4_eliminate")
                  [] Lower(call.energy_level) = "medium" ->
                         Both("Q2_schedule", "Q3_delegate")
                  [] OTHER -> Both("Q1_do_first", "Q2_schedule"))
    /\ [][call'.op = "get_energy_adjusted_tasks" => quadrants' = quadrants]_vars

\* "low" has been answered with a Q3 task followed by a Q4 task while Q1 holds
\* a task too
C22_Witness ==
    /\ call.op = "get_energy_adjusted_tasks"
    /\ call.energy_level = "low"
    /\ Len(quadrants["Q3_delegate"]) >= 1
    /\ Len(quadrants["Q4_eliminate"]) >= 1
    /\ Len(quadrants["Q1_do_first"]) >= 1
    /\ call.result = quadrants["Q3_delegate"] \o quadrants["Q4_eliminate"]

\* a level that is none of the three has been answered as HIGH is, with the
\* Q1 and Q2 tasks
C22_OtherLevel ==
    /\ call.op = "get_energy_adjusted_tasks"
    /\ call.energy_level = "urgent"
    /\ Len(quadrants["Q1_do_first"]) >= 1
    /\ Len(quadrants["Q2_schedule"]) >= 1
    /\ call.result = quadrants["Q1_do_first"] \o quadrants["Q2_schedule"]


----------------------------------------------------------------------------
(***************************************************************************)
(* Claims about the time blocks (BlocksSpec).                              *)
(***************************************************************************)
\* the time of entry i of the schedule returned
TimeOf(i) == Get(call.result[i], "time", None).value

\* the hour and the minute fields of a time, on either side of its colon
HourField(time) == SubSeq(time, 1, Len(time) - 3)
MinuteField(time) == SubSeq(time, Len(time) - 1, Len(time))

\* the minutes that the first n tasks given take, 30 for a task without
\* duration_min
RECURSIVE MinutesOfFirst(_)
MinutesOfFirst(n) ==
    IF n = 0 THEN 0
    ELSE MinutesOfFirst(n - 1)
         + (IF Has(call.tasks[n], "duration_min")
            THEN Get(call.tasks[n], "duration_min", None).value
            ELSE 30)

\* entry i is for task i, and its time, two fields of digits with a colon
\* between, is start_hour:00 plus the minutes of the tasks before it, with a
\* minute in 0..59
Elapsed(i) ==
    /\ Get(call.result[i], "task", None)
           = (IF Has(call.tasks[i], "name")
              THEN Get(call.tasks[i], "name", None)
              ELSE Str("Unknown task"))
    /\ Len(TimeOf(i)) >= 5
    /\ CharAt(TimeOf(i), Len(TimeOf(i)) - 2) = ":"
    /\ AllDigits(HourField(TimeOf(i)))
    /\ AllDigits(MinuteField(TimeOf(i)))
    /\ IntOf(MinuteField(TimeOf(i))) \in 0..59
    /\ IntOf(HourField(TimeOf(i))) * 60 + IntOf(MinuteField(TimeOf(i)))
           = call.start_hour * 60 + MinutesOfFirst(i - 1)

\* C23: create_time_blocks emits one entry per task given, in the order given;
\* for integer durations that are not negative (30 when duration_min is
\* missing) the time of entry i is start_hour:00 plus the durations of the
\* tasks before it, its minute is in 0..59, and every time emitted is a time
\* of the 24-hour clock, with an hour in 0..23.
C23_TimeBlocks ==
    call.op = "create_time_blocks" =>
        /\ Len(call.result) = Len(call.tasks)
        /\ \A i \in 1..Len(call.tasks) :
               /\ Elapsed(i)
               /\ IntOf(HourField(TimeOf(i))) \in 0..23

\* what holds of create_time_blocks: one entry per task in the order given,
\* each at start_hour:00 plus the minutes of the tasks before it, the hour
\* counted on past 23
C23_Elapsed ==
    call.op = "create_time_blocks" =>
        /\ Len(call.result) = Len(call.tasks)
        /\ \A i \in 1..Len(call.tasks) : Elapsed(i)

\* from 23:00, a task of 90 minutes has been followed by an entry at 24:30
C23_PastMidnight ==
    /\ call.op = "create_time_blocks"
    /\ call.start_hour = 23
    /\ Len(call.tasks) = 2
    /\ Get(call.tasks[1], "duration_min", None) = Integer(90)
    /\ TimeOf(1) = "23:00"
    /\ TimeOf(2) = "24:30"


----------------------------------------------------------------------------
(***************************************************************************)
(* Claims about callers of one session (CallersSpec).                      *)
(***************************************************************************)
\* the session the callers share
Shared == sessions["s1"]

\* two messages of the history have the same id
SameId ==
    \E i, j \in 1..Len(Shared.history) :
        i # j /\ Shared.history[i].id = Shared.history[j].id

\* no caller is inside add_message
AllReturned == \A c \in Callers : call.frames[c].pc = "outside"

\* C24: nothing keeps callers of a session apart, and add_message reads
\* len(history) for the id, appends, and increments message_count in separate
\* steps.  While its calls run one at a time the ids of the messages are
\* unique (the i-th message has id i) and, between calls, message_count equals
\* len(history); two messages have the same id only after calls have
\* overlapped, which two interleaved calls can bring about.
C24_AddMessageSteps ==
    call.op = "add_message" =>
        /\ ~call.overlapped =>
               /\ \A i \in 1..Len(Shared.history) : Shared.history[i].id = i
               /\ ~SameId
               /\ AllReturned =>
                      Shared.metadata.message_count = Len(Shared.history)
        /\ SameId => call.overlapped

\* two calls that overlapped have both returned, and their two messages have
\* the same id
C24_Witness ==
    /\ call.op = "add_message"
    /\ call.calls = 2
    /\ call.overlapped
    /\ AllReturned
    /\ Len(Shared.history) = 2
    /\ Shared.history[1].id = Shared.history[2].id
    /\ call.frames[1].result.id = call.frames[2].result.id

\* calls have run one at a time, by both callers, and left ids 1, 2, 3 and a
\* message_count of 3
C24_OneAtATime ==
    /\ call.op = "add_message"
    /\ ~call.overlapped
    /\ AllReturned
    /\ call.frames[1].result # None
    /\ call.frames[2].result # None
    /\ Len(Shared.history) = 3
    /\ Shared.metadata.message_count = 3

\* overlapping calls have returned and left message_count below len(history)
C24_CountLost ==
    /\ call.op = "add_message"
    /\ AllReturned
    /\ Shared.metadata.message_count < Len(Shared.history)


----------------------------------------------------------------------------
(***************************************************************************)
(* Claims about the identifiers of the mock tools (IdentifiersSpec).       *)
(***************************************************************************)
\* call i succeeded
Succeeded(i) ==
    /\ call.made[i].outcome.raised = ""
    /\ call.made[i].outcome.value.success

\* the identifier that the successful call i returned
Identifier(i) ==
    IF call.made[i].tool = "create_gmail_draft"
    THEN call.made[i].outcome.value.draft_id
    ELSE call.made[i].outcome.value.event_id

\* C25: the event_id of create_calendar_event and the draft_id of
\* create_gmail_draft depend on the second of the call alone and not on the
\* arguments: two successful calls of a tool return the same identifier if
\* they are made in the same second, and different identifiers if they are
\* made in different seconds.
C25_IdentifiersByTheSecond ==
    call.op = "tool_calls" =>
        \A i, j \in 1..Len(call.made) :
            (Succeeded(i) /\ Succeeded(j) /\ call.made[i].tool = call.made[j].tool)
                => (Identifier(i) = Identifier(j) <=> call.made[i].at = call.made[j].at)

\* two drafts with different recipients or subjects, made in the same second,
\* have the same draft_id
C25_Witness ==
    /\ call.op = "tool_calls"
    /\ Len(call.made) >= 2
    /\ call.made[1].tool = "create_gmail_draft"
    /\ call.made[2].tool = "create_gmail_draft"
    /\ Succeeded(1)
    /\ Succeeded(2)
    /\ call.made[1].arguments # call.made[2].arguments
    /\ call.made[1].at = call.made[2].at
    /\ Identifier(1) = Identifier(2)

\* two events with the same title and start time, made a second apart, have
\* different event_ids
C25_DistinctSeconds ==
    /\ call.op = "tool_calls"
    /\ Len(call.made) >= 2
    /\ call.made[1].tool = "create_calendar_event"
    /\ call.made[2].tool = "create_calendar_event"
    /\ Succeeded(1)
    /\ Succeeded(2)
    /\ call.made[1].arguments = call.made[2].arguments
    /\ call.made[1].at # call.made[2].at
    /\ Identifier(1) # Identifier(2)

====
